---- MODULE Spec2Model ----
(***************************************************************************)
(* State-machine model of the German buy-to-let property analyzer          *)
(* (src/german-property-analyzer.jsx): the projection engine               *)
(* (calculateProjections, calculateIRR) and the sensitivity-analysis       *)
(* orchestration of the GermanPropertyAnalyzer component (scenario list,   *)
(* scenario dialog, tornado sweep, heatmap sweep, memoised projections).   *)
(*                                                                         *)
(* Number representation.  The program computes with IEEE doubles; the     *)
(* model computes with integers:                                           *)
(*   - money is an integer number of cents;                                *)
(*   - a percentage input (3.75 meaning 3.75%) is an integer number of     *)
(*     hundredths of a percent (375);                                      *)
(*   - every other real (growth factor, rate, discount factor) is a        *)
(*     fixed-point number with eight decimals (One = 1.0), products and    *)
(*     quotients truncated toward zero;                                    *)
(*   - a rate whose magnitude leaves the fixed-point range, or that is the *)
(*     result of a division by zero, is the value NonFinite (the program   *)
(*     holds Infinity, NaN or a number beyond the represented range);      *)
(*   - an IRR is returned as a percentage with four decimals;              *)
(*   - a date is a number of months, the clock (new Date()) counts months. *)
(*                                                                         *)
(* Values held by the component.  A projection result, the tornado data    *)
(* and the heatmap data held by a memo are represented by the call that    *)
(* produced them (the arguments of the computation and, for a projection,  *)
(* the clock of the call); ResultOf, TornadoDataOf and HeatmapDataOf give  *)
(* the value a call stands for.  The summaries of the projections the      *)
(* modelled user can reach are tabulated once (SummaryTable).              *)
(***************************************************************************)
EXTENDS Integers, Sequences, FiniteSets, TLC

----------------------------------------------------------------------------
(* Fixed-point arithmetic *)

MaxInt == (2^30 - 1) * 2 + 1
Limb == 10^4
One == Limb * Limb
NonFinite == -MaxInt

Abs(x) == IF x < 0 THEN -x ELSE x
Sgn(x) == IF x < 0 THEN -1 ELSE IF x > 0 THEN 1 ELSE 0
Max(a, b) == IF a >= b THEN a ELSE b
Min(a, b) == IF a <= b THEN a ELSE b

\* a sequence given as a function, evaluated once
Tuple(f) == <<>> \o f

\* a * b / One, truncated toward zero, computed limb-wise
FMulAbs(x, y) ==
  LET xh == x \div Limb
      xl == x % Limb
      yh == y \div Limb
      yl == y % Limb
      t1 == xh * yl
      t2 == xl * yh
      t3 == (xl * yl) \div Limb
  IN  xh * yh + t1 \div Limb + t2 \div Limb + ((t1 % Limb) + (t2 % Limb) + t3) \div Limb

FMul(a, b) == Sgn(a) * Sgn(b) * FMulAbs(Abs(a), Abs(b))

\* decimal long division: the quotient q so far, the remainder r, one more
\* digit per step until the scale is used up
RECURSIVE LongDiv(_, _, _, _)
LongDiv(q, r, b, scale) ==
  IF scale = 1 THEN q
  ELSE LongDiv(q * 10 + (r * 10) \div b, (r * 10) % b, b, scale \div 10)

\* a * One / b, truncated toward zero (b # 0)
FDivAbs(x, y) ==
  IF y > MaxInt \div 10
  THEN LongDiv(x \div (y \div 10), x % (y \div 10), y \div 10, One \div 10)
  ELSE LongDiv(x \div y, x % y, y, One)

FDiv(a, b) == Sgn(a) * Sgn(b) * FDivAbs(Abs(a), Abs(b))

\* Math.pow(b, n) for an integer exponent n >= 0 (square and multiply)
RECURSIVE FPow(_, _)
FPow(b, n) ==
  IF n = 0 THEN One
  ELSE LET h == FPow(b, n \div 2)
           sq == FMul(h, h)
       IN  IF n % 2 = 0 THEN sq ELSE FMul(sq, b)

\* a percentage input (hundredths of a percent) divided by 100, as a fixed-point fraction
Pct(bp) == bp * Limb

\* Arithmetic that can leave the represented range: a finite value has a
\* magnitude of at most FiniteRange, anything beyond it is NonFinite, and NonFinite
\* operands give NonFinite results (as Infinity and NaN do in the program).
FiniteRange == MaxInt \div 2
FiniteLimit == 10 * One

IsFinite(x) == x # NonFinite /\ Abs(x) <= FiniteRange

FitsMul(a, b) == (Abs(a) \div Limb) + 1 <= (MaxInt \div 4) \div ((Abs(b) \div Limb) + 1)
FitsDiv(a, b) == b # 0 /\ Abs(a) \div Abs(b) < FiniteLimit \div One

XMul(a, b) == IF IsFinite(a) /\ IsFinite(b) /\ FitsMul(a, b) THEN FMul(a, b) ELSE NonFinite
XDiv(a, b) == IF IsFinite(a) /\ IsFinite(b) /\ FitsDiv(a, b) THEN FDiv(a, b) ELSE NonFinite
XAdd(a, b) == IF IsFinite(a) /\ IsFinite(b) /\ Abs(a + b) <= FiniteRange THEN a + b ELSE NonFinite
XSub(a, b) == IF IsFinite(b) THEN XAdd(a, -b) ELSE NonFinite
\* n * a for a small natural n
XTimes(n, a) == IF n = 0 /\ IsFinite(a) THEN 0
                ELSE IF IsFinite(a) /\ Abs(a) <= FiniteRange \div Max(n, 1) THEN n * a ELSE NonFinite
\* Math.abs(a - b)
XAbsDiff(a, b) == IF IsFinite(XSub(a, b)) THEN Abs(a - b) ELSE NonFinite

----------------------------------------------------------------------------
(* calculateGermanTax: the German income tax *)

\* The taxable income is counted in cents, the taxes in ten-thousandths of a
\* euro; y and z are fixed-point fractions.

\* the first progression zone: (922.98 * y + 1400) * y, y = (income - 11604) / 10000
FirstZone(income) ==
  LET y == (income - 1160400) * 100
  IN  FMul(FMul(9229800, y) + 14000000, y)

\* a second progression zone starting ten euros higher: told apart by C23
SecondZoneShifted(income) ==
  LET z == (income - 1700500) * 100
  IN  FMul(FMul(1811900, z) + 23970000, z) + 10353800

\* the second progression zone: (181.19 * z + 2397) * z + 1025.38, z = (income - 17005) / 10000
SecondZone(income) ==
  LET z == (income - 1700500) * 100
  IN  FMul(FMul(1811900, z) + 23970000, z) + 10253800

\* the third progression zone: 0.42 * income - 10602.13
ThirdZone(income) == 42 * income - 106021300

\* the top rate zone: 0.45 * income - 18936.88
TopZone(income) == 45 * income - 189368800

\* calculateGermanTax(taxableIncome, maritalStatus, churchTax)
calculateGermanTax(taxableIncome, maritalStatus, churchTax) ==
  LET income == IF maritalStatus = "married" THEN taxableIncome \div 2 ELSE taxableIncome
      zoneTax == IF income <= 1160400 THEN 0
                 ELSE IF income <= 1700500 THEN FirstZone(income)
                 ELSE IF income <= 6676000 THEN SecondZone(income)
                 ELSE IF income <= 27782500 THEN ThirdZone(income)
                 ELSE TopZone(income)
      incomeTax == IF maritalStatus = "married" THEN zoneTax * 2 ELSE zoneTax
      solidarityThreshold == IF maritalStatus = "married" THEN 327340000 ELSE 163690000
      solidarityTax == IF incomeTax > solidarityThreshold
                       THEN FMul(FMul(incomeTax - solidarityThreshold, 5500000), 120000000)
                       ELSE 0
      churchTaxAmount == IF churchTax THEN FMul(incomeTax, 8000000) ELSE 0
  IN  [incomeTax |-> Max(0, incomeTax),
       solidarityTax |-> Max(0, solidarityTax),
       churchTax |-> churchTaxAmount,
       totalTax |-> Max(0, incomeTax + solidarityTax + churchTaxAmount)]

----------------------------------------------------------------------------
(* calculateIRR: Newton-Raphson on the net present value *)

IRRBudget == 100
InitialGuess == One \div 10
Tolerance == One \div 10000

\* <<1, 1/base, ..., 1/base^n>>: the reciprocals of Math.pow(1 + rate, j),
\* the upper half of the table from the lower half
RECURSIVE Discount(_, _)
Discount(base, n) ==
  IF n = 0 THEN <<One>>
  ELSE LET m == n \div 2
           h == Discount(base, m)
           top == XDiv(h[m + 1], base)
       IN  h \o [k \in 1..(n - m) |-> XMul(top, h[k])]

\* the contributions of the 0-based indices lo..hi of the j-loop to <<npv, dnpv>>:
\* flows[j] / (1 + rate)^j and -j * flows[j] / (1 + rate)^(j + 1)
RECURSIVE NPVTerms(_, _, _, _)
NPVTerms(flows, d, lo, hi) ==
  IF lo = hi
  THEN <<XMul(flows[lo + 1], d[lo + 1]), XSub(0, XTimes(lo, XMul(flows[lo + 1], d[lo + 2])))>>
  ELSE LET mid == (lo + hi) \div 2
           a == NPVTerms(flows, d, lo, mid)
           b == NPVTerms(flows, d, mid + 1, hi)
       IN  <<XAdd(a[1], b[1]), XAdd(a[2], b[2])>>

\* rate - npv / dnpv for the flows at the given rate
NewRate(flows, rate) ==
  LET sums == NPVTerms(flows, Discount(One + rate, Len(flows)), 0, Len(flows) - 1)
      newRate == XSub(rate, XDiv(sums[1], sums[2]))
  IN  IF IsFinite(rate) /\ IsFinite(newRate) /\ Abs(newRate) < FiniteLimit THEN newRate ELSE NonFinite

\* Math.abs(newRate - rate) < 0.0001, false when either is not finite
Converged(newRate, rate) ==
  IsFinite(newRate) /\ IsFinite(rate) /\ Abs(newRate - rate) < Tolerance

\* x * 100 for a rate x: a percentage with four decimals
TimesHundred(x) == IF IsFinite(x) THEN Sgn(x) * (Abs(x) \div 100) ELSE NonFinite

\* one iteration of the for-loop over i; st = [rate, i, done, result]
NewtonStep(flows, st) ==
  IF st.done THEN st
  ELSE LET newRate == NewRate(flows, st.rate)
       IN  IF Converged(newRate, st.rate)
           THEN [st EXCEPT !.done = TRUE, !.result = TimesHundred(newRate)]
           ELSE [st EXCEPT !.rate = newRate, !.i = st.i + 1]

IRRStart == [rate |-> InitialGuess, i |-> 0, done |-> FALSE, result |-> 0]

\* n iterations of the for-loop, stopping at the early return
RECURSIVE IRRIterate(_, _, _)
IRRIterate(flows, st, n) ==
  IF n = 0 \/ st.done THEN st
  ELSE IF n = 1 THEN NewtonStep(flows, st)
  ELSE IRRIterate(flows, IRRIterate(flows, st, n \div 2), n - (n \div 2))

IRRFlows(cashFlows, initialInvestment) == <<-initialInvestment>> \o cashFlows

\* return rate * 100 after the loop
IRRExhaustedResult(st) == TimesHundred(st.rate)

calculateIRR(cashFlows, initialInvestment) ==
  LET flows == IRRFlows(cashFlows, initialInvestment)
      st == IRRIterate(flows, IRRStart, IRRBudget)
  IN  IF st.done THEN st.result ELSE IRRExhaustedResult(st)

----------------------------------------------------------------------------
(* calculateProjections *)

\* const [inputs, setInputs] = useState<PropertyInputs>({...}): the default values.
\* Money fields are whole euros, percentage fields hundredths of a percent.
DefaultInputs ==
  [purchasePrice |-> 300000,
   notaryAndLandRegistryFees |-> 150,
   realEstateTransferTax |-> 500,
   brokerCommission |-> 357,
   renovationCosts |-> 10000,
   equity |-> 60000,
   interestRate |-> 375,
   repaymentRate |-> 140,
   monthlyRent |-> 1200,
   monthlyPropertyManagement |-> 60,
   monthlyMaintenance |-> 100,
   monthlyInsurance |-> 30,
   monthlyOtherCosts |-> 20,
   rentIncreaseRate |-> 300,
   propertyValueIncreaseRate |-> 300,
   operatingCostsIncreaseRate |-> 200,
   annualIncome |-> 60000,
   maritalStatus |-> "single",
   marginalTaxRate |-> 4200,
   churchTaxLiability |-> FALSE,
   vacancyRate |-> 0,
   depreciationRate |-> 200]

\* euros to cents
Cents(euros) == euros * 100

acquisitionCosts(input) ==
  FMul(Cents(input.purchasePrice),
       One + Pct(input.notaryAndLandRegistryFees) + Pct(input.realEstateTransferTax)
           + Pct(input.brokerCommission))
  + Cents(input.renovationCosts)

loanAmount(input) == acquisitionCosts(input) - Cents(input.equity)

totalInvestment(input) == Cents(input.equity)

\* first day of the month after today; dates are counted in months
startDate(now) == now + 1

totalMonths == 30 * 12

\* a loan on which nothing is paid: the balance grows with the rate
outstandingLoanAtWithoutPayments(input, year) ==
  LET monthlyRate == (Pct(input.interestRate) + Pct(input.repaymentRate)) \div 12
  IN  IF year > 0
      THEN IF year * 12 < totalMonths
           THEN FMul(loanAmount(input), FPow(One + monthlyRate, year * 12))
           ELSE 0
      ELSE loanAmount(input)

\* outstanding loan at the start of the 0-based year, before the clamp at 0
outstandingLoanAt(input, year) ==
  LET annualPaymentRate == Pct(input.interestRate) + Pct(input.repaymentRate)
      monthlyRate == annualPaymentRate \div 12
      monthsPassed == year * 12
      grown == FPow(One + monthlyRate, monthsPassed)
      monthlyPayment == FDiv(FMul(loanAmount(input), monthlyRate),
                             One - FDiv(One, FPow(One + monthlyRate, totalMonths)))
  IN  IF year > 0
      THEN IF monthsPassed < totalMonths
           THEN FMul(loanAmount(input), grown)
                  - FDiv(FMul(monthlyPayment, grown - One), monthlyRate)
           ELSE 0
      ELSE loanAmount(input)

\* a tax effect that is never a liability: told apart by C25
taxSavingsWithoutLiability(input, taxableRentalIncome) ==
  LET churchFactor == IF input.churchTaxLiability THEN One + (One \div 100) * 8 ELSE One
  IN  IF taxableRentalIncome < 0
      THEN FMul(FMul(Abs(taxableRentalIncome), Pct(input.marginalTaxRate)), churchFactor)
      ELSE 0

\* a tax effect at a rate that rises with the annual income: told apart by C30
taxSavingsByIncome(input, taxableRentalIncome) ==
  LET rate == IF input.annualIncome > 100000 THEN 4500 ELSE input.marginalTaxRate
      churchFactor == IF input.churchTaxLiability THEN One + (One \div 100) * 8 ELSE One
  IN  FMul(FMul(-taxableRentalIncome, Pct(rate)), churchFactor)

\* the tax impact of the year: taxSavings, with taxSavings *= 1.08 under church tax
taxSavingsOn(input, taxableRentalIncome) ==
  LET churchFactor == IF input.churchTaxLiability THEN One + (One \div 100) * 8 ELSE One
  IN  IF taxableRentalIncome < 0
      THEN FMul(FMul(Abs(taxableRentalIncome), Pct(input.marginalTaxRate)), churchFactor)
      ELSE FMul(FMul(-taxableRentalIncome, Pct(input.marginalTaxRate)), churchFactor)

\* the amounts the body of the year loop computes for the 0-based year
YearAmounts(input, year) ==
  LET propertyValue == FMul(Cents(input.purchasePrice),
                            FPow(One + Pct(input.propertyValueIncreaseRate), year))
      grossRent == FMul(Cents(input.monthlyRent) * 12,
                        FPow(One + Pct(input.rentIncreaseRate), year))
      effectiveRent == FMul(grossRent, One - Pct(input.vacancyRate))
      monthlyOperatingCosts == Cents(input.monthlyPropertyManagement + input.monthlyMaintenance
                                      + input.monthlyInsurance + input.monthlyOtherCosts)
      totalOperatingCosts == FMul(monthlyOperatingCosts * 12,
                                  FPow(One + Pct(input.operatingCostsIncreaseRate), year))
      annualRate == Pct(input.interestRate)
      annualPaymentRate == annualRate + Pct(input.repaymentRate)
      outstandingLoan == Max(0, outstandingLoanAt(input, year))
      annualLoanPayment == IF outstandingLoan > 0 THEN FMul(outstandingLoan, annualPaymentRate) ELSE 0
      interestPaid == FMul(outstandingLoan, annualRate)
      principalRepaid == annualLoanPayment - interestPaid
      buildingValue == FMul(Cents(input.purchasePrice), (One \div 10) * 8)
      depreciation == FMul(buildingValue, Pct(input.depreciationRate))
      taxableRentalIncome == effectiveRent - totalOperatingCosts - interestPaid - depreciation
      taxSavings == taxSavingsOn(input, taxableRentalIncome)
      grossCashFlow == effectiveRent - totalOperatingCosts - annualLoanPayment
      netCashFlow == grossCashFlow + taxSavings
      equity == propertyValue - outstandingLoan
  IN  [propertyValue |-> propertyValue,
       outstandingLoan |-> outstandingLoan,
       annualLoanPayment |-> annualLoanPayment,
       interestPaid |-> interestPaid,
       principalRepaid |-> principalRepaid,
       grossRent |-> grossRent,
       effectiveRent |-> effectiveRent,
       totalOperatingCosts |-> totalOperatingCosts,
       depreciation |-> depreciation,
       taxableIncome |-> taxableRentalIncome,
       taxSavings |-> taxSavings,
       grossCashFlow |-> grossCashFlow,
       netCashFlow |-> netCashFlow,
       equity |-> equity]

\* totals that are not carried from year to year: told apart by C24
RunningTotalsOfYear(amounts, lo, hi) ==
  [k \in 1..(hi - lo + 1) |-> <<amounts[lo + k - 1].netCashFlow, amounts[lo + k - 1].taxSavings>>]

\* cumulativeCashFlow += netCashFlow; cumulativeTaxSavings += taxSavings:
\* the pairs <<cumulativeCashFlow, cumulativeTaxSavings>> accumulated over the
\* years lo..hi, one pair per year
RECURSIVE RunningTotals(_, _, _)
RunningTotals(amounts, lo, hi) ==
  IF lo = hi THEN << <<amounts[lo].netCashFlow, amounts[lo].taxSavings>> >>
  ELSE LET mid == (lo + hi) \div 2
           first == RunningTotals(amounts, lo, mid)
           rest == RunningTotals(amounts, mid + 1, hi)
           carry == first[Len(first)]
       IN  first \o [k \in 1..Len(rest) |-> <<carry[1] + rest[k][1], carry[2] + rest[k][2]>>]

\* a year record whose net worth moves with the clock: told apart by C9
YearRecordReadingClock(a, year, totals, now) ==
  [year |-> year + 1,
   date |-> startDate(now) + 12 * year,
   propertyValue |-> a.propertyValue,
   outstandingLoan |-> a.outstandingLoan,
   annualLoanPayment |-> a.annualLoanPayment,
   interestPaid |-> a.interestPaid,
   principalRepaid |-> a.principalRepaid,
   grossRent |-> a.grossRent,
   effectiveRent |-> a.effectiveRent,
   totalOperatingCosts |-> a.totalOperatingCosts,
   depreciation |-> a.depreciation,
   taxableIncome |-> a.taxableIncome,
   taxSavings |-> a.taxSavings,
   grossCashFlow |-> a.grossCashFlow,
   netCashFlow |-> a.netCashFlow,
   equity |-> a.equity,
   netWorth |-> a.equity + totals[1] + now,
   cumulativeCashFlow |-> totals[1],
   cumulativeTaxSavings |-> totals[2]]

\* the record pushed for the 0-based year: its amounts a, the running totals
\* after the year, and the date of the year's start
YearRecord(a, year, totals, now) ==
  [year |-> year + 1,
   date |-> startDate(now) + 12 * year,
   propertyValue |-> a.propertyValue,
   outstandingLoan |-> a.outstandingLoan,
   annualLoanPayment |-> a.annualLoanPayment,
   interestPaid |-> a.interestPaid,
   principalRepaid |-> a.principalRepaid,
   grossRent |-> a.grossRent,
   effectiveRent |-> a.effectiveRent,
   totalOperatingCosts |-> a.totalOperatingCosts,
   depreciation |-> a.depreciation,
   taxableIncome |-> a.taxableIncome,
   taxSavings |-> a.taxSavings,
   grossCashFlow |-> a.grossCashFlow,
   netCashFlow |-> a.netCashFlow,
   equity |-> a.equity,
   netWorth |-> a.equity + totals[1],
   cumulativeCashFlow |-> totals[1],
   cumulativeTaxSavings |-> totals[2]]

\* the amounts and running totals of the years of the loop
YearLoopAmounts(input, years) ==
  LET amounts == Tuple([k \in 1..years |-> YearAmounts(input, k - 1)])
  IN  [amounts |-> amounts, totals |-> RunningTotals(amounts, 1, years)]

\* for (let year = 0; year < years; year++) { ... yearlyData.push(...) }
YearLoop(loop, years, now) ==
  Tuple([k \in 1..years |-> YearRecord(loop.amounts[k], k - 1, loop.totals[k], now)])

\* yearlyData.slice(0, n).map(d => d.netCashFlow)
NetCashFlows(yearlyData, n) ==
  Tuple([k \in 1..Min(n, Len(yearlyData)) |-> yearlyData[k].netCashFlow])

\* yearlyData[h - 1]?.equity || 0
finalEquity(yearlyData, h) ==
  IF Len(yearlyData) >= h THEN yearlyData[h].equity ELSE 0

\* a series in which every year carries the final equity: told apart by C8
IRRCashFlowsAugmentingAll(yearlyData, h) ==
  LET cashFlows == NetCashFlows(yearlyData, h)
  IN  Tuple([k \in 1..Len(cashFlows) |-> cashFlows[k] + finalEquity(yearlyData, h)])

\* the cash flows handed to calculateIRR for the horizon h:
\* [...cashFlows.slice(0, -1), cashFlows[h - 1] + finalEquity]
IRRCashFlows(yearlyData, h) ==
  LET cashFlows == NetCashFlows(yearlyData, h)
  IN  Tuple([k \in 1..Len(cashFlows) |->
               IF k = Len(cashFlows) THEN cashFlows[h] + finalEquity(yearlyData, h)
               ELSE cashFlows[k]])

\* cashFlows.length >= h: the guard of the call of calculateIRR for the horizon h
IRRInvoked(yearlyData, h) == Len(NetCashFlows(yearlyData, h)) >= h

irrYear(yearlyData, h, initialInvestment) ==
  IF IRRInvoked(yearlyData, h)
  THEN calculateIRR(IRRCashFlows(yearlyData, h), initialInvestment)
  ELSE 0

\* yearlyData[h - 1]?.cumulativeCashFlow || 0
totalCashFlowYear(yearlyData, h) ==
  IF Len(yearlyData) >= h THEN yearlyData[h].cumulativeCashFlow ELSE 0

\* yearlyData[h - 1]?.netWorth || 0
netWorthYear(yearlyData, h) ==
  IF Len(yearlyData) >= h THEN yearlyData[h].netWorth ELSE 0

\* (netWorth / totalInvestment - 1) * 100, in hundredths of a percent
roiAtYear(yearlyData, h, initialInvestment) ==
  IF Len(yearlyData) >= h
  THEN IF initialInvestment = 0 THEN NonFinite
       ELSE LET nw == yearlyData[h].netWorth
                a == Abs(nw)
                b == Abs(initialInvestment)
            IN  Sgn(nw) * Sgn(initialInvestment) * LongDiv(a \div b, a % b, b, Limb) - Limb
  ELSE 0

averageAnnualCashFlow(yearlyData) ==
  LET n == Len(yearlyData)
      c == IF n = 0 THEN 0 ELSE yearlyData[Min(40, n)].cumulativeCashFlow
  IN  IF n = 0 THEN NonFinite ELSE Sgn(c) * (Abs(c) \div Min(40, n))

Summary(input, yearlyData) ==
  [totalInvestment |-> totalInvestment(input),
   irr10Year |-> irrYear(yearlyData, 10, totalInvestment(input)),
   irr20Year |-> irrYear(yearlyData, 20, totalInvestment(input)),
   irr40Year |-> irrYear(yearlyData, 40, totalInvestment(input)),
   totalCashFlow10Year |-> totalCashFlowYear(yearlyData, 10),
   totalCashFlow20Year |-> totalCashFlowYear(yearlyData, 20),
   totalCashFlow40Year |-> totalCashFlowYear(yearlyData, 40),
   netWorth10Year |-> netWorthYear(yearlyData, 10),
   netWorth20Year |-> netWorthYear(yearlyData, 20),
   netWorth40Year |-> netWorthYear(yearlyData, 40),
   averageAnnualCashFlow |-> averageAnnualCashFlow(yearlyData),
   roiAtYear10 |-> roiAtYear(yearlyData, 10, totalInvestment(input)),
   roiAtYear20 |-> roiAtYear(yearlyData, 20, totalInvestment(input)),
   roiAtYear40 |-> roiAtYear(yearlyData, 40, totalInvestment(input))]

\* calculateProjections(inputs, years), called when the clock shows now
calculateProjections(input, years, now) ==
  LET yearlyData == YearLoop(YearLoopAmounts(input, years), years, now)
  IN  [yearlyData |-> yearlyData, summary |-> Summary(input, yearlyData)]

----------------------------------------------------------------------------
(* The GermanPropertyAnalyzer component: constants of the sensitivity analysis *)

Horizons == {10, 20, 40}

\* const sensitivityVariables: SensitivityVariable[] = [...]
sensitivityVariables(input) ==
  << [name |-> "Interest Rate", key |-> "interestRate", min |-> 200, max |-> 600, step |-> 25,
      currentValue |-> input.interestRate],
     [name |-> "Rent Increase", key |-> "rentIncreaseRate", min |-> 100, max |-> 500, step |-> 50,
      currentValue |-> input.rentIncreaseRate],
     [name |-> "Property Value Increase", key |-> "propertyValueIncreaseRate", min |-> 0, max |-> 500,
      step |-> 50, currentValue |-> input.propertyValueIncreaseRate],
     [name |-> "Operating Costs Increase", key |-> "operatingCostsIncreaseRate", min |-> 100, max |-> 400,
      step |-> 50, currentValue |-> input.operatingCostsIncreaseRate],
     [name |-> "Vacancy Rate", key |-> "vacancyRate", min |-> 0, max |-> 1000, step |-> 100,
      currentValue |-> input.vacancyRate],
     [name |-> "Marginal Tax Rate", key |-> "marginalTaxRate", min |-> 3000, max |-> 5000, step |-> 100,
      currentValue |-> input.marginalTaxRate],
     [name |-> "Repayment Rate", key |-> "repaymentRate", min |-> 100, max |-> 300, step |-> 20,
      currentValue |-> input.repaymentRate],
     [name |-> "Depreciation Rate", key |-> "depreciationRate", min |-> 100, max |-> 300, step |-> 50,
      currentValue |-> input.depreciationRate] >>

\* sensitivityVariables.find(v => v.key === key); <<>> stands for undefined
FindVariable(input, key) ==
  LET vs == sensitivityVariables(input)
      found == {i \in 1..Len(vs) : vs[i].key = key}
  IN  IF found = {} THEN <<>>
      ELSE vs[CHOOSE i \in found : \A j \in found : i <= j]

\* an override map (Partial<Record<keyof PropertyInputs, number>>) is a function
\* from a set of input keys to values
EmptyMap == [k \in {} |-> 0]

\* a merge in which the base inputs win: told apart by C5
MergeKeepingBase(input, overrides) == [k \in DOMAIN input |-> input[k]]

\* { ...inputs, ...overrides }
Merge(input, overrides) ==
  [k \in DOMAIN input |-> IF k \in DOMAIN overrides THEN overrides[k] ELSE input[k]]

\* { ...map, [key]: value }
WithKey(map, key, value) ==
  [k \in (DOMAIN map) \cup {key} |-> IF k = key THEN value ELSE map[k]]

\* delete map[key]
WithoutKey(map, key) == [k \in (DOMAIN map) \ {key} |-> map[k]]

\* getPresetAdjustments(preset)
getPresetAdjustments(input, preset) ==
  IF preset = "optimistic"
  THEN [interestRate |-> Max(200, input.interestRate - 50),
        rentIncreaseRate |-> Min(500, input.rentIncreaseRate + 100),
        propertyValueIncreaseRate |-> Min(500, input.propertyValueIncreaseRate + 100),
        vacancyRate |-> 0]
  ELSE [interestRate |-> Min(600, input.interestRate + 100),
        rentIncreaseRate |-> Max(100, input.rentIncreaseRate - 100),
        propertyValueIncreaseRate |-> Max(0, input.propertyValueIncreaseRate - 100),
        vacancyRate |-> 500]

ScenarioColors ==
  <<"#1e3a8a", "#10b981", "#ef4444", "#8b5cf6", "#f59e0b", "#3b82f6", "#ec4899", "#14b8a6">>

\* getScenarioColor(index), index counted from 0
getScenarioColor(index) == ScenarioColors[(index % Len(ScenarioColors)) + 1]

LowerIsBetter == {"interestRate", "operatingCostsIncreaseRate", "vacancyRate"}
HigherIsBetter == {"rentIncreaseRate", "propertyValueIncreaseRate", "repaymentRate", "depreciationRate"}

\* isValidAdjustment(key, value, type)
isValidAdjustment(input, key, value, type) ==
  IF type = "custom" THEN TRUE
  ELSE IF type = "optimistic"
       THEN IF key \in LowerIsBetter THEN value <= input[key]
            ELSE IF key \in HigherIsBetter THEN value >= input[key]
            ELSE TRUE
       ELSE IF key \in LowerIsBetter THEN value >= input[key]
            ELSE IF key \in HigherIsBetter THEN value <= input[key]
            ELSE TRUE

BaseScenario == [name |-> "Base", variables |-> EmptyMap, color |-> "#1e3a8a"]

----------------------------------------------------------------------------
(* What the user of the modelled component can enter *)

\* the largest number of scenarios in the list, the base scenario included
MaxScenarios == 2
\* the longest scenario list of the specification of the colours
MaxColours == 3
\* the number of months the clock can advance
MaxClock == 1

\* handleInputChange(key, value): the values typed into the input fields
InputChoices == {<<"vacancyRate", 1500>>, <<"vacancyRate", 0>>}
\* setNewScenarioName: the names typed into the dialog
NameChoices == {"A", " "}
\* handleCustomAdjustment(key, value): a slider position chosen in the dialog, and
\* a value typed into its numeric field
AdjustmentChoices == {<<"interestRate", 450>>, <<"interestRate", 700>>}
\* setTornadoMetric, setHeatmapMetric
TornadoMetricChoices == {"irr10", "irr20", "irr40", "cashflow"}
HeatmapMetricChoices == {"irr20", "networth"}
\* setHeatmapVarX, setHeatmapVarY
AxisChoices == {"interestRate", "rentIncreaseRate"}

\* the input records handleInputChange can produce from the default inputs
RECURSIVE InputsAfter(_, _)
InputsAfter(reached, n) ==
  IF n = 0 THEN reached
  ELSE InputsAfter(reached \cup {[b EXCEPT ![c[1]] = c[2]] : b \in reached, c \in InputChoices}, n - 1)

BaseInputs == InputsAfter({DefaultInputs}, Cardinality({c[1] : c \in InputChoices}))

\* the override maps the scenario dialog can hold: the presets and what
\* handleCustomAdjustment and removeCustomAdjustment make of them
RemovableKeys == {c[1] : c \in AdjustmentChoices}

RECURSIVE MapsAfter(_, _)
MapsAfter(reached, n) ==
  IF n = 0 THEN reached
  ELSE MapsAfter(reached \cup {WithKey(m, c[1], c[2]) : m \in reached, c \in AdjustmentChoices}
                         \cup {WithoutKey(m, k) : m \in reached, k \in RemovableKeys}, n - 1)

OverrideMaps ==
  MapsAfter({EmptyMap} \cup {getPresetAdjustments(b, p) : b \in BaseInputs, p \in {"optimistic", "pessimistic"}},
            2 * Cardinality(AdjustmentChoices))

\* const stepsX = 5; const stepsY = 5
HeatmapSteps == 5

\* an axis divided into as many steps as it has points: told apart by C4
AxisValueShortSteps(variable, j) ==
  variable.min + j * ((variable.max - variable.min) \div HeatmapSteps)

\* min + j * stepSize, stepSize = (max - min) / (steps - 1)
AxisValue(variable, j) ==
  variable.min + j * ((variable.max - variable.min) \div (HeatmapSteps - 1))

\* { ...inputs, [heatmapVarX]: xValue, [heatmapVarY]: yValue }
HeatmapTestInputs(input, varX, varY, j, i) ==
  [[input EXCEPT ![varX.key] = AxisValue(varX, j)] EXCEPT ![varY.key] = AxisValue(varY, i)]

\* a sweep that also resets the vacancy rate: told apart by C3
TornadoTestInputsResettingVacancy(input, variable, value) ==
  [[input EXCEPT !.vacancyRate = 0] EXCEPT ![variable.key] = value]

\* { ...inputs, [variable.key]: value }
TornadoTestInputs(input, variable, value) == [input EXCEPT ![variable.key] = value]

\* the inputs of the calls of calculateProjections whose figures are tabulated:
\* those the component can make for the choices above
TabulatedInputs ==
  BaseInputs
  \cup {Merge(b, m) : b \in BaseInputs, m \in OverrideMaps}
  \cup UNION {{TornadoTestInputs(b, sensitivityVariables(b)[v], sensitivityVariables(b)[v].min),
               TornadoTestInputs(b, sensitivityVariables(b)[v], sensitivityVariables(b)[v].max)} :
                b \in BaseInputs, v \in 1..Len(sensitivityVariables(DefaultInputs))}
  \cup {HeatmapTestInputs(b, FindVariable(b, x), FindVariable(b, y), j, i) :
          b \in BaseInputs, x \in AxisChoices, y \in AxisChoices,
          j \in 0..(HeatmapSteps - 1), i \in 0..(HeatmapSteps - 1)}

\* a function evaluated once, on all of its domain
Evaluated(f) == f @@ <<>>

\* the summaries of the calls tabulated, evaluated once; the clock of the
\* call is immaterial to the summary, which reads no date
SummaryTable ==
  Evaluated([c \in TabulatedInputs \X Horizons |-> calculateProjections(c[1], c[2], 0).summary])

\* the summary of calculateProjections(inputs, years)
ProjectionSummary(input, years) ==
  IF <<input, years>> \in DOMAIN SummaryTable
  THEN SummaryTable[<<input, years>>]
  ELSE calculateProjections(input, years, 0).summary

\* the series calculateProjections hands to calculateIRR, one per horizon for
\* which the call is made
SolverCalls(input, years) ==
  LET yearlyData == YearLoop(YearLoopAmounts(input, years), years, 0)
  IN  [h \in {g \in Horizons : IRRInvoked(yearlyData, g)} |->
         IRRFlows(IRRCashFlows(yearlyData, h), totalInvestment(input))]

----------------------------------------------------------------------------
(* The memoised computations of the component *)

\* an extraction of the cash flow and the net worth that reads the 40-year
\* figures at every horizon
getMetricValueAtForty(summary, metric, years) ==
  CASE metric = "irr10" -> summary.irr10Year
    [] metric = "irr20" -> summary.irr20Year
    [] metric = "irr40" -> summary.irr40Year
    [] metric = "cashflow" -> summary.totalCashFlow40Year
    [] metric = "networth" -> summary.netWorth40Year

\* getMetricValue(projection) of the tornado memo for the selected metric;
\* only the summary is read
getMetricValue(summary, metric, years) ==
  CASE metric = "irr10" -> summary.irr10Year
    [] metric = "irr20" -> summary.irr20Year
    [] metric = "irr40" -> summary.irr40Year
    [] metric = "cashflow" ->
         IF years = 10 THEN summary.totalCashFlow10Year
         ELSE IF years = 20 THEN summary.totalCashFlow20Year
         ELSE summary.totalCashFlow40Year
    [] metric = "networth" ->
         IF years = 10 THEN summary.netWorth10Year
         ELSE IF years = 20 THEN summary.netWorth20Year
         ELSE summary.netWorth40Year

\* a projection result held by the component is represented by the call that
\* produced it: the inputs, the horizon and the clock of the call
ProjectionCall(input, years, now) == [inputs |-> input, years |-> years, today |-> now]

\* the summary of the result a call stands for
SummaryOf(call) == ProjectionSummary(call.inputs, call.years)

\* scenarios.map(scenario => calculateProjections({ ...inputs, ...scenario.variables }, projectionYears))
ScenarioProjections(enabled, base, scens, input, years, now) ==
  IF ~enabled THEN <<base>>
  ELSE Tuple([i \in 1..Len(scens) |-> ProjectionCall(Merge(input, scens[i].variables), years, now)])

\* the entry of the tornado data for one variable
TornadoEntry(variable, input, years, metric, baseValue) ==
  LET minInputs == TornadoTestInputs(input, variable, variable.min)
      minValue == getMetricValue(ProjectionSummary(minInputs, years), metric, years)
      maxInputs == TornadoTestInputs(input, variable, variable.max)
      maxValue == getMetricValue(ProjectionSummary(maxInputs, years), metric, years)
  IN  [variable |-> variable.name,
       minImpact |-> minValue,
       maxImpact |-> maxValue,
       baseValue |-> baseValue,
       range |-> XAbsDiff(maxValue, minValue)]

\* (a, b) => b.range - a.range: negative when a sorts before b; a difference
\* that is not a number compares as equal
CompareRange(a, b) ==
  IF IsFinite(a.range) /\ IsFinite(b.range) THEN b.range - a.range ELSE 0

\* an insertion that puts e before the elements of the same range (a sort
\* that is not stable): told apart by C26
RECURSIVE InsertByRangeBeforeTies(_, _)
InsertByRangeBeforeTies(sorted, e) ==
  IF sorted = <<>> THEN <<e>>
  ELSE IF CompareRange(Head(sorted), e) < 0
       THEN <<Head(sorted)>> \o InsertByRangeBeforeTies(Tail(sorted), e)
       ELSE <<e>> \o sorted

\* Array.prototype.sort with CompareRange (a stable sort): e is put behind
\* every element that does not sort after it
RECURSIVE InsertByRange(_, _)
InsertByRange(sorted, e) ==
  IF sorted = <<>> THEN <<e>>
  ELSE IF CompareRange(Head(sorted), e) <= 0
       THEN <<Head(sorted)>> \o InsertByRange(Tail(sorted), e)
       ELSE <<e>> \o sorted

RECURSIVE SortByRange(_, _)
SortByRange(entries, n) ==
  IF n = 0 THEN <<>> ELSE InsertByRange(SortByRange(entries, n - 1), entries[n])

\* the tornado data computed by the memo
TornadoData(show, metric, input, years, base) ==
  IF ~show THEN <<>>
  ELSE LET baseValue == getMetricValue(SummaryOf(base), metric, years)
           vs == sensitivityVariables(input)
           entries == Tuple([v \in 1..Len(vs) |-> TornadoEntry(vs[v], input, years, metric, baseValue)])
       IN  SortByRange(entries, Len(entries))

\* getMetricValue(projection) of the heatmap memo
getMetricValueHeatmap(summary, metric, years) ==
  CASE metric = "irr10" -> summary.irr10Year
    [] metric = "irr20" -> summary.irr20Year
    [] metric = "irr40" -> summary.irr40Year
    [] metric = "cashflow" ->
         IF years = 10 THEN summary.totalCashFlow10Year
         ELSE IF years = 20 THEN summary.totalCashFlow20Year
         ELSE summary.totalCashFlow40Year
    [] metric = "networth" ->
         IF years = 10 THEN summary.netWorth10Year
         ELSE IF years = 20 THEN summary.netWorth20Year
         ELSE summary.netWorth40Year

\* xValue.toFixed(2): the whole part and the two decimals
ToFixed2(value) == <<value \div 100, value % 100>>

\* the cell pushed in the inner loop for the column j and the row i
HeatmapCell(input, years, metric, varX, varY, j, i) ==
  LET testInputs == HeatmapTestInputs(input, varX, varY, j, i)
      metricValue == getMetricValueHeatmap(ProjectionSummary(testInputs, years), metric, years)
  IN  [x |-> j, y |-> i,
       xLabel |-> ToFixed2(AxisValue(varX, j)),
       yLabel |-> ToFixed2(AxisValue(varY, i)),
       value |-> metricValue]

\* the heatmap data computed by the memo: rows i outside, columns j inside
HeatmapData(show, keyX, keyY, metric, input, years) ==
  IF ~show THEN <<>>
  ELSE LET varX == FindVariable(input, keyX)
           varY == FindVariable(input, keyY)
       IN  IF varX = <<>> \/ varY = <<>> THEN <<>>
           ELSE Tuple([n \in 1..(HeatmapSteps * HeatmapSteps) |->
                  HeatmapCell(input, years, metric, varX, varY,
                              (n - 1) % HeatmapSteps, (n - 1) \div HeatmapSteps)])

\* the data held by the tornado and heatmap memos is represented, like a
\* projection result, by the computation that produced it: its arguments
TornadoCall(show, metric, input, years, base) ==
  [show |-> show, metric |-> metric, inputs |-> input, years |-> years, base |-> base]

HeatmapCall(show, keyX, keyY, metric, input, years) ==
  [show |-> show, varX |-> keyX, varY |-> keyY, metric |-> metric, inputs |-> input, years |-> years]

\* the data a computation stands for
TornadoDataOf(call) == TornadoData(call.show, call.metric, call.inputs, call.years, call.base)
HeatmapDataOf(call) ==
  HeatmapData(call.show, call.varX, call.varY, call.metric, call.inputs, call.years)
----------------------------------------------------------------------------
(* Rendering of the charts: the colours of the heatmap cells and the widths
   of the tornado bars.  A colour is <<red, green, blue>>; a width is a
   percentage with four decimals. *)

\* the number of the set that no other is below (above); of no number, and
\* with a number that is not finite among them, not a finite number
LeastOf(values) ==
  IF values = {} \/ \E v \in values : ~IsFinite(v) THEN NonFinite
  ELSE CHOOSE m \in values : \A v \in values : m <= v

GreatestOf(values) ==
  IF values = {} \/ \E v \in values : ~IsFinite(v) THEN NonFinite
  ELSE CHOOSE m \in values : \A v \in values : m >= v

\* Math.min(...heatmapData.map(d => d.value)), Math.max(...)
minValue(data) == LeastOf({data[k].value : k \in DOMAIN data})
maxValue(data) == GreatestOf({data[k].value : k \in DOMAIN data})

\* Math.round(255 * f) for a fraction f >= 0, computed limb-wise
Round255(f) ==
  LET scaled == 255 * (f \div Limb) + (255 * (f % Limb)) \div Limb
  IN  (scaled + Limb \div 2) \div Limb

\* (value - min) / (max - min): not a number when max = min
Normalized(value, min, max) == XDiv(XSub(value, min), XSub(max, min))

\* getColor(value, min, max); a comparison with NaN is false, so a position
\* that is not a number takes the second branch
getColor(value, min, max) ==
  LET normalized == Normalized(value, min, max)
  IN  IF IsFinite(normalized) /\ normalized < One \div 2
      THEN <<255, Round255(normalized * 2), 100>>
      ELSE IF IsFinite(normalized)
           THEN <<Round255(One - (normalized - One \div 2) * 2), 255, 100>>
           ELSE <<NonFinite, 255, 100>>

\* the colours of the cells of the table, in the order of the data
HeatmapColors(data) ==
  [k \in DOMAIN data |-> getColor(data[k].value, minValue(data), maxValue(data))]

\* maxAbsDelta: the largest distance of an end of a bar from the base value
maxAbsDelta(data) ==
  GreatestOf(UNION {{XAbsDiff(data[k].minImpact, data[k].baseValue),
                     XAbsDiff(data[k].maxImpact, data[k].baseValue)} : k \in DOMAIN data})

\* (Math.abs(delta) / maxAbsDelta) * 100
WidthPercent(delta, largest) ==
  LET share == XDiv(delta, largest)
  IN  IF IsFinite(share) THEN share \div 100 ELSE NonFinite

\* minWidthPercent and maxWidthPercent of every bar, in the order of the data
TornadoWidths(data) ==
  [k \in DOMAIN data |->
     [minWidthPercent |-> WidthPercent(XAbsDiff(data[k].minImpact, data[k].baseValue), maxAbsDelta(data)),
      maxWidthPercent |-> WidthPercent(XAbsDiff(data[k].maxImpact, data[k].baseValue), maxAbsDelta(data))]]

----------------------------------------------------------------------------
(* State *)

VARIABLES
  \* the state of the component (useState)
  inputs, projectionYears, sensitivityEnabled,
  customAdjustments, scenarios, showScenarioDialog, newScenarioName,
  newScenarioType, editingScenarioIndex,
  showTornadoChart, tornadoMetric,
  showHeatmap, heatmapVarX, heatmapVarY, heatmapMetric,
  \* the values held by the memos (useMemo)
  baseProjection, scenarioProjections, tornadoData, heatmapData,
  \* the clock read by new Date(), in months
  today,
  \* the calls of calculateProjections made by a caller of the engine
  calls,
  \* a run of calculateIRR: its local variables and its position
  irr,
  \* the calls of calculateGermanTax made by a caller of the tax calculator
  taxes

dialogVars == <<customAdjustments, scenarios, showScenarioDialog, newScenarioName,
                newScenarioType, editingScenarioIndex>>
chartVars == <<showTornadoChart, tornadoMetric, showHeatmap, heatmapVarX, heatmapVarY, heatmapMetric>>
memoVars == <<baseProjection, scenarioProjections, tornadoData, heatmapData>>
componentVars == <<inputs, projectionYears, sensitivityEnabled, dialogVars, chartVars, memoVars>>
vars == <<componentVars, today, calls, irr, taxes>>

\* useState<number | null>: null is the empty tuple, an index a tuple of one
Null == <<>>

\* the state after the first render of the component
InitComponent ==
  /\ inputs = DefaultInputs
  /\ projectionYears = 40
  /\ sensitivityEnabled = FALSE
  /\ customAdjustments = EmptyMap
  /\ scenarios = <<BaseScenario>>
  /\ showScenarioDialog = FALSE
  /\ newScenarioName = ""
  /\ newScenarioType = "custom"
  /\ editingScenarioIndex = Null
  /\ showTornadoChart = FALSE
  /\ tornadoMetric = "irr20"
  /\ showHeatmap = FALSE
  /\ heatmapVarX = "interestRate"
  /\ heatmapVarY = "rentIncreaseRate"
  /\ heatmapMetric = "irr20"
  /\ baseProjection = ProjectionCall(DefaultInputs, 40, 0)
  /\ scenarioProjections = <<ProjectionCall(DefaultInputs, 40, 0)>>
  /\ tornadoData = TornadoCall(FALSE, "irr20", DefaultInputs, 40, ProjectionCall(DefaultInputs, 40, 0))
  /\ heatmapData = HeatmapCall(FALSE, "interestRate", "rentIncreaseRate", "irr20", DefaultInputs, 40)

IRRIdle == [pc |-> "idle", flows |-> <<>>, rate |-> InitialGuess, i |-> 0, result |-> 0]

Init ==
  /\ InitComponent
  /\ today = 0
  /\ calls = <<>>
  /\ irr = IRRIdle
  /\ taxes = <<>>

----------------------------------------------------------------------------
(* Rendering: the memos whose dependencies changed are computed again *)

\* the dependencies that are compared by identity: a new object on every set
ObjectDependencies == {"inputs", "scenarios", "baseProjection"}

\* the dependencies that are compared by value: changed by the handler or not
Changed(d) ==
  CASE d = "projectionYears" -> projectionYears' # projectionYears
    [] d = "sensitivityEnabled" -> sensitivityEnabled' # sensitivityEnabled
    [] d = "showTornadoChart" -> showTornadoChart' # showTornadoChart
    [] d = "tornadoMetric" -> tornadoMetric' # tornadoMetric
    [] d = "showHeatmap" -> showHeatmap' # showHeatmap
    [] d = "heatmapVarX" -> heatmapVarX' # heatmapVarX
    [] d = "heatmapVarY" -> heatmapVarY' # heatmapVarY
    [] d = "heatmapMetric" -> heatmapMetric' # heatmapMetric

\* the dependency lists of the four memos (tornadoDataDepsWithoutMetric is a
\* list that misses the metric: told apart by C10)
baseProjectionDeps == {"inputs", "projectionYears"}
scenarioProjectionsDeps == {"inputs", "scenarios", "sensitivityEnabled", "projectionYears"}
tornadoDataDepsWithoutMetric == {"showTornadoChart", "inputs", "projectionYears", "baseProjection"}
tornadoDataDeps == {"showTornadoChart", "tornadoMetric", "inputs", "projectionYears", "baseProjection"}
heatmapDataDeps == {"showHeatmap", "heatmapVarX", "heatmapVarY", "heatmapMetric", "inputs", "projectionYears"}

\* a memo is stale when one of its dependencies is a new object (assigned) or
\* a primitive with a new value
Stale(deps, assigned) ==
  \E d \in deps : IF d \in ObjectDependencies THEN d \in assigned ELSE Changed(d)

\* the render that follows a handler which assigned the given objects
Render(assigned) ==
  LET baseStale == Stale(baseProjectionDeps, assigned)
      base == IF baseStale THEN ProjectionCall(inputs', projectionYears', today') ELSE baseProjection
      objects == IF baseStale THEN assigned \cup {"baseProjection"} ELSE assigned
  IN  /\ baseProjection' = base
      /\ scenarioProjections' =
           IF Stale(scenarioProjectionsDeps, objects)
           THEN ScenarioProjections(sensitivityEnabled', base, scenarios', inputs', projectionYears', today')
           ELSE scenarioProjections
      /\ tornadoData' =
           IF Stale(tornadoDataDeps, objects)
           THEN TornadoCall(showTornadoChart', tornadoMetric', inputs', projectionYears', base)
           ELSE tornadoData
      /\ heatmapData' =
           IF Stale(heatmapDataDeps, objects)
           THEN HeatmapCall(showHeatmap', heatmapVarX', heatmapVarY', heatmapMetric', inputs', projectionYears')
           ELSE heatmapData

\* what the handlers of the component leave alone
Outside == UNCHANGED <<today, calls, irr, taxes>>

----------------------------------------------------------------------------
(* Handlers of the input form and of the sensitivity panel *)

handleInputChange(key, value) ==
  /\ ~showScenarioDialog
  /\ inputs[key] # value
  /\ inputs' = [inputs EXCEPT ![key] = value]
  /\ UNCHANGED <<projectionYears, sensitivityEnabled, dialogVars, chartVars>>
  /\ Outside
  /\ Render({"inputs"})

setProjectionYears(years) ==
  /\ ~showScenarioDialog
  /\ years # projectionYears
  /\ projectionYears' = years
  /\ UNCHANGED <<inputs, sensitivityEnabled, dialogVars, chartVars>>
  /\ Outside
  /\ Render({})

setSensitivityEnabled(checked) ==
  /\ ~showScenarioDialog
  /\ checked # sensitivityEnabled
  /\ sensitivityEnabled' = checked
  /\ UNCHANGED <<inputs, projectionYears, dialogVars, chartVars>>
  /\ Outside
  /\ Render({})

----------------------------------------------------------------------------
(* Handlers of the scenario list and of the scenario dialog *)

\* openScenarioDialog(type) while the list holds fewer than limit scenarios;
\* type "none" stands for the call without argument
openScenarioDialogWithin(limit, type) ==
  /\ sensitivityEnabled /\ ~showScenarioDialog
  /\ Len(scenarios) < limit
  /\ IF type # "none"
     THEN /\ newScenarioType' = type
          /\ customAdjustments' = getPresetAdjustments(inputs, type)
          /\ newScenarioName' = (IF type = "optimistic" THEN "Optimistic" ELSE "Pessimistic")
     ELSE /\ newScenarioType' = "custom"
          /\ customAdjustments' = EmptyMap
          /\ newScenarioName' = ""
  /\ editingScenarioIndex' = Null
  /\ showScenarioDialog' = TRUE
  /\ UNCHANGED <<inputs, projectionYears, sensitivityEnabled, scenarios, chartVars>>
  /\ Outside
  /\ Render({})

openScenarioDialog(type) == openScenarioDialogWithin(MaxScenarios, type)

setNewScenarioName(name) ==
  /\ showScenarioDialog
  /\ name # newScenarioName
  /\ newScenarioName' = name
  /\ UNCHANGED <<inputs, projectionYears, sensitivityEnabled, customAdjustments, scenarios,
                 showScenarioDialog, newScenarioType, editingScenarioIndex, chartVars>>
  /\ Outside
  /\ Render({})

\* onChange of the scenario type select
selectScenarioType(type) ==
  /\ showScenarioDialog
  /\ type # newScenarioType
  /\ newScenarioType' = type
  /\ customAdjustments' = (IF type # "custom" THEN getPresetAdjustments(inputs, type)
                           ELSE customAdjustments)
  /\ UNCHANGED <<inputs, projectionYears, sensitivityEnabled, scenarios, showScenarioDialog,
                 newScenarioName, editingScenarioIndex, chartVars>>
  /\ Outside
  /\ Render({})

handleCustomAdjustment(key, value) ==
  /\ showScenarioDialog
  /\ customAdjustments' =
       (IF newScenarioType # "custom" /\ ~isValidAdjustment(inputs, key, value, newScenarioType)
        THEN customAdjustments
        ELSE WithKey(customAdjustments, key, value))
  /\ UNCHANGED <<inputs, projectionYears, sensitivityEnabled, scenarios, showScenarioDialog,
                 newScenarioName, newScenarioType, editingScenarioIndex, chartVars>>
  /\ Outside
  /\ Render({})

removeCustomAdjustment(key) ==
  /\ showScenarioDialog
  /\ key \in DOMAIN customAdjustments
  /\ customAdjustments' = WithoutKey(customAdjustments, key)
  /\ UNCHANGED <<inputs, projectionYears, sensitivityEnabled, scenarios, showScenarioDialog,
                 newScenarioName, newScenarioType, editingScenarioIndex, chartVars>>
  /\ Outside
  /\ Render({})

\* a trim that keeps the blanks: told apart by C27
TrimNothing(name) == name

\* newScenarioName.trim(): the names of the model have no blanks but " "
Trim(name) == IF name = " " THEN "" ELSE name

\* the adjustments addScenario stores
AddedAdjustments ==
  IF newScenarioType = "custom" THEN customAdjustments
  ELSE getPresetAdjustments(inputs, newScenarioType)

\* the early returns of addScenario (after an alert)
AddScenarioRejected ==
  \/ Trim(newScenarioName) = ""
  \/ (DOMAIN AddedAdjustments = {} /\ newScenarioType = "custom")

addScenario ==
  /\ showScenarioDialog
  /\ IF AddScenarioRejected
     THEN /\ UNCHANGED <<inputs, projectionYears, sensitivityEnabled, dialogVars, chartVars>>
          /\ Outside
          /\ Render({})
     ELSE LET newScenario == [name |-> newScenarioName,
                              variables |-> AddedAdjustments,
                              color |-> getScenarioColor(Len(scenarios))]
          IN  /\ scenarios' = (IF editingScenarioIndex # Null
                               THEN [scenarios EXCEPT ![editingScenarioIndex[1] + 1] = newScenario]
                               ELSE Append(scenarios, newScenario))
              /\ showScenarioDialog' = FALSE
              /\ newScenarioName' = ""
              /\ newScenarioType' = "custom"
              /\ customAdjustments' = EmptyMap
              /\ editingScenarioIndex' = Null
              /\ UNCHANGED <<inputs, projectionYears, sensitivityEnabled, chartVars>>
              /\ Outside
              /\ Render({"scenarios"})

\* the close button and the Cancel button of the dialog
cancelScenarioDialog ==
  /\ showScenarioDialog
  /\ showScenarioDialog' = FALSE
  /\ customAdjustments' = EmptyMap
  /\ newScenarioName' = ""
  /\ editingScenarioIndex' = Null
  /\ UNCHANGED <<inputs, projectionYears, sensitivityEnabled, scenarios, newScenarioType, chartVars>>
  /\ Outside
  /\ Render({})

\* a removeScenario without the guard of the base scenario: told apart by C6
removeScenarioUnguarded(index) ==
  /\ sensitivityEnabled /\ ~showScenarioDialog
  /\ index < Len(scenarios)
  /\ scenarios' = [k \in 1..(Len(scenarios) - 1) |->
                     IF k <= index THEN scenarios[k] ELSE scenarios[k + 1]]
  /\ UNCHANGED <<inputs, projectionYears, sensitivityEnabled, customAdjustments,
                 showScenarioDialog, newScenarioName, newScenarioType,
                 editingScenarioIndex, chartVars>>
  /\ Outside
  /\ Render({"scenarios"})

\* removeScenario(index), index counted from 0
removeScenario(index) ==
  /\ sensitivityEnabled /\ ~showScenarioDialog
  /\ index < Len(scenarios)
  /\ IF index = 0
     THEN /\ UNCHANGED <<inputs, projectionYears, sensitivityEnabled, dialogVars, chartVars>>
          /\ Outside
          /\ Render({})
     ELSE /\ scenarios' = [k \in 1..(Len(scenarios) - 1) |->
                             IF k <= index THEN scenarios[k] ELSE scenarios[k + 1]]
          /\ UNCHANGED <<inputs, projectionYears, sensitivityEnabled, customAdjustments,
                         showScenarioDialog, newScenarioName, newScenarioType,
                         editingScenarioIndex, chartVars>>
          /\ Outside
          /\ Render({"scenarios"})

\* editScenario(index), index counted from 0
editScenario(index) ==
  /\ sensitivityEnabled /\ ~showScenarioDialog
  /\ index < Len(scenarios)
  /\ IF index = 0
     THEN /\ UNCHANGED <<inputs, projectionYears, sensitivityEnabled, dialogVars, chartVars>>
          /\ Outside
          /\ Render({})
     ELSE /\ newScenarioName' = scenarios[index + 1].name
          /\ customAdjustments' = scenarios[index + 1].variables
          /\ editingScenarioIndex' = <<index>>
          /\ showScenarioDialog' = TRUE
          /\ UNCHANGED <<inputs, projectionYears, sensitivityEnabled, scenarios, newScenarioType,
                         chartVars>>
          /\ Outside
          /\ Render({})

----------------------------------------------------------------------------
(* Handlers of the charts *)

\* onClick of the tornado button: setShowTornadoChart(!showTornadoChart)
toggleTornadoChart ==
  /\ sensitivityEnabled /\ ~showScenarioDialog
  /\ showTornadoChart' = ~showTornadoChart
  /\ UNCHANGED <<inputs, projectionYears, sensitivityEnabled, dialogVars,
                 tornadoMetric, showHeatmap, heatmapVarX, heatmapVarY, heatmapMetric>>
  /\ Outside
  /\ Render({})

\* onClick of the heatmap button: setShowHeatmap(!showHeatmap)
toggleHeatmap ==
  /\ sensitivityEnabled /\ ~showScenarioDialog
  /\ showHeatmap' = ~showHeatmap
  /\ UNCHANGED <<inputs, projectionYears, sensitivityEnabled, dialogVars,
                 showTornadoChart, tornadoMetric, heatmapVarX, heatmapVarY, heatmapMetric>>
  /\ Outside
  /\ Render({})

setTornadoMetric(metric) ==
  /\ showTornadoChart /\ sensitivityEnabled /\ ~showScenarioDialog
  /\ metric # tornadoMetric
  /\ tornadoMetric' = metric
  /\ UNCHANGED <<inputs, projectionYears, sensitivityEnabled, dialogVars,
                 showTornadoChart, showHeatmap, heatmapVarX, heatmapVarY, heatmapMetric>>
  /\ Outside
  /\ Render({})

setHeatmapVarX(key) ==
  /\ showHeatmap /\ sensitivityEnabled /\ ~showScenarioDialog
  /\ key # heatmapVarX
  /\ heatmapVarX' = key
  /\ UNCHANGED <<inputs, projectionYears, sensitivityEnabled, dialogVars,
                 showTornadoChart, tornadoMetric, showHeatmap, heatmapVarY, heatmapMetric>>
  /\ Outside
  /\ Render({})

setHeatmapVarY(key) ==
  /\ showHeatmap /\ sensitivityEnabled /\ ~showScenarioDialog
  /\ key # heatmapVarY
  /\ heatmapVarY' = key
  /\ UNCHANGED <<inputs, projectionYears, sensitivityEnabled, dialogVars,
                 showTornadoChart, tornadoMetric, showHeatmap, heatmapVarX, heatmapMetric>>
  /\ Outside
  /\ Render({})

setHeatmapMetric(metric) ==
  /\ showHeatmap /\ sensitivityEnabled /\ ~showScenarioDialog
  /\ metric # heatmapMetric
  /\ heatmapMetric' = metric
  /\ UNCHANGED <<inputs, projectionYears, sensitivityEnabled, dialogVars,
                 showTornadoChart, tornadoMetric, showHeatmap, heatmapVarX, heatmapVarY>>
  /\ Outside
  /\ Render({})

----------------------------------------------------------------------------
(* The clock *)

\* a month passes: new Date() yields a later month from now on
Tick ==
  /\ today < MaxClock
  /\ today' = today + 1
  /\ UNCHANGED <<componentVars, calls, irr, taxes>>

----------------------------------------------------------------------------
(* A caller of the projection engine *)

\* the largest number of calls of calculateProjections the caller makes
MaxCalls == 2

\* the inputs the caller passes
\* financings the engine is called with besides the default one: a dearer
\* loan, and an equity above the acquisition costs
FinancingChoices ==
  {[DefaultInputs EXCEPT !.interestRate = 600, !.repaymentRate = 300],
   [DefaultInputs EXCEPT !.equity = 400000]}

\* tax situations the engine is called with besides the default one: church
\* tax, a marginal tax rate of 0 (the emptied input field), and another
\* income and marital status
TaxChoices ==
  {[DefaultInputs EXCEPT !.churchTaxLiability = TRUE],
   [DefaultInputs EXCEPT !.marginalTaxRate = 0],
   [DefaultInputs EXCEPT !.annualIncome = 120000, !.maritalStatus = "married"]}

\* the inputs of the calls that differ in the tax situation only
TaxEffectInputs == {DefaultInputs} \cup TaxChoices

EngineInputs ==
  BaseInputs \cup FinancingChoices
    \cup {Merge(DefaultInputs, getPresetAdjustments(DefaultInputs, p)) :
            p \in {"optimistic", "pessimistic"}}

\* the results of the calls made with these inputs, evaluated once
ResultsTable ==
  Evaluated([c \in (EngineInputs \cup TaxChoices) \X Horizons \X (0..MaxClock) |->
               calculateProjections(c[1], c[2], c[3])])

SolverTable ==
  Evaluated([c \in (EngineInputs \cup TaxChoices) \X Horizons |-> SolverCalls(c[1], c[2])])

\* the result a call stands for
ResultOf(call) ==
  IF <<call.inputs, call.years, call.today>> \in DOMAIN ResultsTable
  THEN ResultsTable[<<call.inputs, call.years, call.today>>]
  ELSE calculateProjections(call.inputs, call.years, call.today)

\* the series a call handed to calculateIRR
SolverCallsOf(call) ==
  IF <<call.inputs, call.years>> \in DOMAIN SolverTable
  THEN SolverTable[<<call.inputs, call.years>>]
  ELSE SolverCalls(call.inputs, call.years)

\* calculateProjections(inputs, years) is called
Call(in, years) ==
  /\ Len(calls) < MaxCalls
  /\ calls' = Append(calls, ProjectionCall(in, years, today))
  /\ UNCHANGED <<componentVars, today, irr, taxes>>

----------------------------------------------------------------------------
(* A run of calculateIRR, one iteration of the loop at a time *)

\* the longest series of cash flows passed
MaxFlowLen == 4

\* the amounts of the series, in cents
FlowAmounts == {-500000, 0, 100000, 200000, 400000}
SolverInvestments == {300000}

RECURSIVE FlowsOfLen(_)
FlowsOfLen(n) ==
  IF n = 0 THEN {<<>>}
  ELSE {Append(f, a) : f \in FlowsOfLen(n - 1), a \in FlowAmounts}

\* const flows = [-initialInvestment, ...cashFlows]; let rate = 0.1
IRRCall(cashFlows, initialInvestment) ==
  /\ irr.pc = "idle"
  /\ irr' = [pc |-> "loop", flows |-> IRRFlows(cashFlows, initialInvestment),
             rate |-> IRRStart.rate, i |-> IRRStart.i, result |-> 0]
  /\ UNCHANGED <<componentVars, today, calls, taxes>>

\* one pass of the body of the for loop
IRRIteration ==
  /\ irr.pc = "loop"
  /\ irr.i < IRRBudget
  /\ LET st == NewtonStep(irr.flows, [rate |-> irr.rate, i |-> irr.i, done |-> FALSE, result |-> 0])
     IN  irr' = IF st.done
                THEN [irr EXCEPT !.pc = "converged", !.result = st.result]
                ELSE [irr EXCEPT !.rate = st.rate, !.i = st.i]
  /\ UNCHANGED <<componentVars, today, calls, taxes>>

\* the return behind the loop
IRRExhausted ==
  /\ irr.pc = "loop"
  /\ irr.i >= IRRBudget
  /\ irr' = [irr EXCEPT !.pc = "exhausted",
                        !.result = IRRExhaustedResult([rate |-> irr.rate, i |-> irr.i,
                                                       done |-> FALSE, result |-> 0])]
  /\ UNCHANGED <<componentVars, today, calls, taxes>>


----------------------------------------------------------------------------
(* A caller of the tax calculator *)

\* the largest number of calls of calculateGermanTax the caller makes
MaxTaxCalls == 2

\* the taxable incomes passed, in cents: the zone boundaries, the amounts next
\* to them and amounts inside the zones
TaxIncomes ==
  {Cents(e) : e \in {0, 11604, 11606, 17005, 17006, 40000, 66760, 66762, 100000,
                     277825, 277826}}

\* the tax a call stands for
TaxOf(call) == calculateGermanTax(call.taxableIncome, call.maritalStatus, call.churchTax)

\* calculateGermanTax(taxableIncome, maritalStatus, churchTax) is called
TaxCall(taxableIncome, maritalStatus, churchTax) ==
  /\ Len(taxes) < MaxTaxCalls
  /\ taxes' = Append(taxes, [taxableIncome |-> taxableIncome,
                             maritalStatus |-> maritalStatus,
                             churchTax |-> churchTax])
  /\ UNCHANGED <<componentVars, today, calls, irr>>
----------------------------------------------------------------------------
(* Specifications *)

PresetTypes == {"optimistic", "pessimistic"}
ScenarioTypes == PresetTypes \cup {"custom"}

InputChange == \E c \in InputChoices : handleInputChange(c[1], c[2])
HorizonChange == \E years \in Horizons : setProjectionYears(years)
SensitivityChange == \E checked \in BOOLEAN : setSensitivityEnabled(checked)

\* the scenario list is changed, holding at most limit scenarios
ScenarioListChangeWithin(limit) ==
  \/ \E type \in PresetTypes \cup {"none"} : openScenarioDialogWithin(limit, type)
  \/ addScenario
  \/ cancelScenarioDialog
  \/ \E index \in 0..(limit - 1) : removeScenario(index)
  \/ \E index \in 0..(limit - 1) : editScenario(index)

ScenarioListChange == ScenarioListChangeWithin(MaxScenarios)

\* the fields of the scenario dialog are edited
DialogEdit ==
  \/ \E name \in NameChoices : setNewScenarioName(name)
  \/ \E type \in ScenarioTypes : selectScenarioType(type)
  \/ \E c \in AdjustmentChoices : handleCustomAdjustment(c[1], c[2])
  \/ \E key \in RemovableKeys : removeCustomAdjustment(key)

ScenarioChange == ScenarioListChange \/ DialogEdit

ChartChange ==
  \/ toggleTornadoChart
  \/ toggleHeatmap
  \/ \E metric \in TornadoMetricChoices : setTornadoMetric(metric)
  \/ \E key \in AxisChoices : setHeatmapVarX(key)
  \/ \E key \in AxisChoices : setHeatmapVarY(key)
  \/ \E metric \in HeatmapMetricChoices : setHeatmapMetric(metric)

\* the component in use
Next ==
  \/ InputChange
  \/ HorizonChange
  \/ SensitivityChange
  \/ ScenarioChange
  \/ ChartChange
  \/ Tick

Spec == Init /\ [][Next]_vars

\* the scenario list and the scenario dialog in use
NextScenarios ==
  \/ SensitivityChange
  \/ ScenarioListChange
  \/ DialogEdit

SpecScenarios == Init /\ [][NextScenarios]_vars

\* the scenario projections in use, over the months
NextProjections ==
  \/ InputChange
  \/ HorizonChange
  \/ SensitivityChange
  \/ ScenarioListChange
  \/ Tick

SpecProjections == Init /\ [][NextProjections]_vars

\* the component with its charts in use
NextCharts ==
  \/ InputChange
  \/ HorizonChange
  \/ SensitivityChange
  \/ ChartChange

SpecCharts == Init /\ [][NextCharts]_vars

\* the component with inputs, horizon, scenario list and charts changing
NextChanges ==
  \/ InputChange
  \/ HorizonChange
  \/ SensitivityChange
  \/ ScenarioListChange
  \/ ChartChange

SpecChanges == Init /\ [][NextChanges]_vars

\* calls of the projection engine
NextEngine ==
  \/ \E in \in EngineInputs : \E years \in Horizons : Call(in, years)
  \/ Tick

SpecEngine == Init /\ [][NextEngine]_vars

\* runs of the IRR solver
NextIRR ==
  \/ \E n \in 1..MaxFlowLen : \E cashFlows \in FlowsOfLen(n) :
       \E investment \in SolverInvestments : IRRCall(cashFlows, investment)
  \/ IRRIteration
  \/ IRRExhausted

SpecIRR == Init /\ [][NextIRR]_vars

\* the scenario list in use, long enough for a colour to be handed out twice
NextColours ==
  \/ SensitivityChange
  \/ ScenarioListChangeWithin(MaxColours)

SpecColours == Init /\ [][NextColours]_vars


\* calls of the projection engine in several tax situations
NextTaxEffect ==
  \/ \E in \in TaxEffectInputs : \E years \in Horizons : Call(in, years)
  \/ Tick

SpecTaxEffect == Init /\ [][NextTaxEffect]_vars

\* calls of the tax calculator
NextTax ==
  \E taxableIncome \in TaxIncomes : \E maritalStatus \in {"single", "married"} :
    \E churchTax \in BOOLEAN : TaxCall(taxableIncome, maritalStatus, churchTax)

SpecTax == Init /\ [][NextTax]_vars
----------------------------------------------------------------------------
(* Properties of the projection engine, checked under SpecEngine *)

\* C1: every call of the engine, whatever horizon is displayed, produces 40
\* yearly records, and the summary of a call does not change with the horizon
C1_FortyRecordsAtEveryHorizon ==
  \A i \in DOMAIN calls :
    /\ Len(ResultOf(calls[i]).yearlyData) = 40
    /\ \A j \in DOMAIN calls :
         calls[j].inputs = calls[i].inputs
           => ResultOf(calls[j]).summary = ResultOf(calls[i]).summary

\* a call made for the horizon 10: ten records, and no 20-year figures
C1_HorizonTenCall ==
  \E i \in DOMAIN calls :
    /\ calls[i].years = 10
    /\ Len(ResultOf(calls[i]).yearlyData) = 10
    /\ ResultOf(calls[i]).summary.irr20Year = 0
    /\ ResultOf(calls[i]).summary.netWorth40Year = 0

\* C8: every series handed to the IRR solver, for a reporting horizon h, is
\* the negated equity input, the net cash flows of the years 1..h-1, and the
\* net cash flow of the year h plus property value minus outstanding loan of
\* that year's record: h + 1 numbers, no other year augmented; the solver is
\* called for the horizons that have a year record
C8_SolverSeries ==
  \A i \in DOMAIN calls :
    LET yearlyData == ResultOf(calls[i]).yearlyData
        series == SolverCallsOf(calls[i])
    IN  /\ DOMAIN series = {h \in Horizons : h <= Len(yearlyData)}
        /\ \A h \in DOMAIN series :
             /\ Len(series[h]) = h + 1
             /\ series[h][1] = -Cents(calls[i].inputs.equity)
             /\ \A k \in 1..(h - 1) : series[h][k + 1] = yearlyData[k].netCashFlow
             /\ series[h][h + 1] = yearlyData[h].netCashFlow
                                     + (yearlyData[h].propertyValue - yearlyData[h].outstandingLoan)

\* a call for the horizon 40 has handed all three series to the solver
C8_ThreeSeries ==
  \E i \in DOMAIN calls :
    /\ calls[i].years = 40
    /\ DOMAIN SolverCallsOf(calls[i]) = Horizons
    /\ ResultOf(calls[i]).yearlyData[10].equity > 0

\* a year record without its date
WithoutDate(record) == [f \in (DOMAIN record) \ {"date"} |-> record[f]]

\* C9: two calls with the same inputs and horizon return the same summary and
\* the same year records but for the dates; the date of a record is derived
\* from the start date of its call, so with the same start date the results
\* are identical in every field
C9_SameInputsSameResult ==
  \A i, j \in DOMAIN calls :
    (calls[i].inputs = calls[j].inputs /\ calls[i].years = calls[j].years) =>
      LET a == ResultOf(calls[i])
          b == ResultOf(calls[j])
      IN  /\ a.summary = b.summary
          /\ Len(a.yearlyData) = Len(b.yearlyData)
          /\ \A k \in DOMAIN a.yearlyData :
               /\ WithoutDate(a.yearlyData[k]) = WithoutDate(b.yearlyData[k])
               /\ a.yearlyData[k].date = startDate(calls[i].today) + 12 * (k - 1)
          /\ (startDate(calls[i].today) = startDate(calls[j].today) => a = b)

\* the same call made twice, in different months
C9_SameCallInTwoMonths ==
  \E i, j \in DOMAIN calls :
    /\ i < j
    /\ calls[i].inputs = calls[j].inputs
    /\ calls[i].years = calls[j].years
    /\ calls[i].today # calls[j].today
    /\ ResultOf(calls[i]).yearlyData[1].date # ResultOf(calls[j]).yearlyData[1].date

----------------------------------------------------------------------------
(* Properties of the IRR solver, checked under SpecIRR *)

\* C7: a run that uses up its iterations without converging returns
\* something a caller can tell apart from a rate: not a number
C7_NonConvergenceIsDistinct ==
  irr.pc = "exhausted" => ~IsFinite(irr.result)

\* a run that used up its iterations and returned a number
C7_ExhaustedWithNumber ==
  /\ irr.pc = "exhausted"
  /\ irr.i = IRRBudget
  /\ irr.flows = <<-300000, 100000, 400000, 200000, -500000>>
  /\ IsFinite(irr.result)

----------------------------------------------------------------------------
(* Properties of the charts, checked under SpecCharts *)

\* |minImpact - baseValue| + |maxImpact - baseValue|
TotalImpact(entry) ==
  XAdd(XAbsDiff(entry.minImpact, entry.baseValue), XAbsDiff(entry.maxImpact, entry.baseValue))

\* C2: in the tornado data every entry has a total impact
\* |minImpact - baseValue| + |maxImpact - baseValue| at least that of the next
C2_OrderedByTotalImpact ==
  LET data == TornadoDataOf(tornadoData)
  IN  \A k \in 1..(Len(data) - 1) : TotalImpact(data[k]) >= TotalImpact(data[k + 1])

\* with a vacancy rate above the catalogue's range an entry of larger total
\* impact stands behind one of smaller total impact
C2_VacancyOutOfOrder ==
  /\ showTornadoChart
  /\ inputs.vacancyRate = 1500
  /\ LET data == TornadoDataOf(tornadoData)
     IN  \E k \in 1..(Len(data) - 1) :
           /\ data[k + 1].variable = "Vacancy Rate"
           /\ IsFinite(TotalImpact(data[k])) /\ IsFinite(TotalImpact(data[k + 1]))
           /\ TotalImpact(data[k]) < TotalImpact(data[k + 1])

\* the selected metric of the projection run on the given inputs
MetricOf(input, metric, years) == getMetricValue(ProjectionSummary(input, years), metric, years)

\* C3: the tornado data has one entry per catalogue variable v, with minImpact
\* the metric of the base inputs with only v's field set to v.min, maxImpact
\* the same with v.max, baseValue the metric of the base inputs, all three
\* metric values and not differences; the sweep ran on the base inputs, which
\* are as they were
C3_TornadoEntries ==
  showTornadoChart =>
    LET data == TornadoDataOf(tornadoData)
        vs == sensitivityVariables(inputs)
    IN  /\ Len(data) = Len(vs)
        /\ tornadoData.inputs = inputs
        /\ \A v \in DOMAIN vs :
             LET entries == {k \in DOMAIN data : data[k].variable = vs[v].name}
             IN  /\ Cardinality(entries) = 1
                 /\ \A k \in entries :
                      /\ data[k].minImpact =
                           MetricOf([inputs EXCEPT ![vs[v].key] = vs[v].min], tornadoMetric, projectionYears)
                      /\ data[k].maxImpact =
                           MetricOf([inputs EXCEPT ![vs[v].key] = vs[v].max], tornadoMetric, projectionYears)
                      /\ data[k].baseValue = MetricOf(inputs, tornadoMetric, projectionYears)

\* a sweep over base inputs whose vacancy rate is not the default
C3_SweepOfChangedInputs ==
  /\ showTornadoChart
  /\ inputs.vacancyRate = 1500
  /\ tornadoMetric = "cashflow"
  /\ projectionYears = 10
  /\ Len(TornadoDataOf(tornadoData)) = 8
  /\ \E k \in DOMAIN TornadoDataOf(tornadoData) :
       TornadoDataOf(tornadoData)[k].minImpact # TornadoDataOf(tornadoData)[k].baseValue

\* C4: for two different axis variables X and Y the heatmap data has 25
\* cells, one for each column j and row i in 0..4, whose value is the metric
\* of the base inputs with X = X.min + j (X.max - X.min) / 4 and
\* Y = Y.min + i (Y.max - Y.min) / 4; the corners lie on the minima and maxima
C4_HeatmapCells ==
  (showHeatmap /\ heatmapVarX # heatmapVarY) =>
    LET data == HeatmapDataOf(heatmapData)
        X == FindVariable(inputs, heatmapVarX)
        Y == FindVariable(inputs, heatmapVarY)
    IN  /\ Len(data) = 25
        /\ \A j, i \in 0..4 :
             LET cells == {k \in DOMAIN data : data[k].x = j /\ data[k].y = i}
                 atX == X.min + (j * (X.max - X.min)) \div 4
                 atY == Y.min + (i * (Y.max - Y.min)) \div 4
             IN  /\ (j * (X.max - X.min)) % 4 = 0
                 /\ (i * (Y.max - Y.min)) % 4 = 0
                 /\ j = 4 => atX = X.max
                 /\ i = 4 => atY = Y.max
                 /\ Cardinality(cells) = 1
                 /\ \A k \in cells :
                      data[k].value =
                        MetricOf([inputs EXCEPT ![X.key] = atX, ![Y.key] = atY],
                                 heatmapMetric, projectionYears)

\* a heatmap of two different variables whose corners differ
C4_HeatmapShown ==
  /\ showHeatmap
  /\ heatmapVarX = "rentIncreaseRate"
  /\ heatmapVarY = "interestRate"
  /\ heatmapMetric = "networth"
  /\ Len(HeatmapDataOf(heatmapData)) = 25
  /\ HeatmapDataOf(heatmapData)[1].value # HeatmapDataOf(heatmapData)[25].value

----------------------------------------------------------------------------
(* Properties of the scenario projections, checked under SpecProjections,
   and of the scenario list, checked under SpecScenarios *)

\* C5, as it reads: while the sensitivity analysis is enabled there is one
\* projection per scenario, run on the base inputs with the scenario's
\* overrides, and a scenario without overrides yields a result equal to the
\* base projection in every field
C5_EmptyScenarioEqualsBase ==
  sensitivityEnabled =>
    /\ Len(scenarioProjections) = Len(scenarios)
    /\ \A s \in DOMAIN scenarios :
         /\ scenarioProjections[s].inputs =
              [f \in DOMAIN inputs |->
                 IF f \in DOMAIN scenarios[s].variables THEN scenarios[s].variables[f] ELSE inputs[f]]
         /\ scenarios[s].variables = EmptyMap
              => ResultOf(scenarioProjections[s]) = ResultOf(baseProjection)

\* C5, amended: as above, but a scenario without overrides yields a result
\* equal to the base projection in every field other than the dates, and in
\* the dates too when both were computed in the same month
C5_ScenarioProjections ==
  sensitivityEnabled =>
    /\ Len(scenarioProjections) = Len(scenarios)
    /\ \A s \in DOMAIN scenarios :
         /\ scenarioProjections[s].inputs =
              [f \in DOMAIN inputs |->
                 IF f \in DOMAIN scenarios[s].variables THEN scenarios[s].variables[f] ELSE inputs[f]]
         /\ scenarioProjections[s].years = projectionYears
         /\ scenarios[s].variables = EmptyMap =>
              LET a == ResultOf(scenarioProjections[s])
                  b == ResultOf(baseProjection)
              IN  /\ a.summary = b.summary
                  /\ Len(a.yearlyData) = Len(b.yearlyData)
                  /\ \A k \in DOMAIN a.yearlyData :
                       WithoutDate(a.yearlyData[k]) = WithoutDate(b.yearlyData[k])
                  /\ (scenarioProjections[s].today = baseProjection.today => a = b)

\* two scenarios projected, the second with overrides, in a month later than
\* that of the base projection
C5_ProjectedInLaterMonth ==
  /\ sensitivityEnabled
  /\ Len(scenarios) = 2
  /\ DOMAIN scenarios[2].variables # {}
  /\ scenarioProjections[2].inputs # inputs
  /\ scenarioProjections[1].today # baseProjection.today

\* C6: the scenario list is never empty and starts with the base scenario,
\* which has no overrides; removeScenario(0) and editScenario(0) change nothing
C6_BaseScenarioStays ==
  /\ [](Len(scenarios) >= 1 /\ scenarios[1] = BaseScenario /\ scenarios[1].variables = EmptyMap)
  /\ [][(removeScenario(0) \/ editScenario(0)) => UNCHANGED vars]_vars

\* a list whose second scenario was created and then updated, with the
\* dialog closed again
C6_ScenarioUpdated ==
  /\ Len(scenarios) = 2
  /\ scenarios[2].color = getScenarioColor(2)
  /\ ~showScenarioDialog
  /\ sensitivityEnabled

----------------------------------------------------------------------------
(* Freshness of what is rendered, checked under SpecChanges *)

\* C10: the base projection, the scenario projections, the tornado data and
\* the heatmap data are those computed from the current inputs, scenario
\* list, metrics, axes and horizon
C10_NothingStale ==
  /\ baseProjection.inputs = inputs
  /\ baseProjection.years = projectionYears
  /\ IF sensitivityEnabled
     THEN /\ Len(scenarioProjections) = Len(scenarios)
          /\ \A s \in DOMAIN scenarios :
               /\ scenarioProjections[s].inputs = Merge(inputs, scenarios[s].variables)
               /\ scenarioProjections[s].years = projectionYears
     ELSE scenarioProjections = <<baseProjection>>
  /\ tornadoData = TornadoCall(showTornadoChart, tornadoMetric, inputs, projectionYears, baseProjection)
  /\ heatmapData = HeatmapCall(showHeatmap, heatmapVarX, heatmapVarY, heatmapMetric, inputs,
                               projectionYears)

\* both charts shown, with a second scenario, after the inputs, the horizon
\* and the metrics were changed
C10_EverythingChanged ==
  /\ sensitivityEnabled /\ showTornadoChart /\ showHeatmap
  /\ inputs # DefaultInputs
  /\ projectionYears = 10
  /\ tornadoMetric = "cashflow"
  /\ heatmapMetric = "networth"
  /\ heatmapVarX = "rentIncreaseRate"
  /\ Len(scenarios) = 2

----------------------------------------------------------------------------
(* Properties of the metric extraction, checked under SpecEngine *)

Metrics == {"irr10", "irr20", "irr40", "cashflow", "networth"}

\* the metric of a projection result at the horizon h, as the extraction is
\* described: the IRR of the summary, or a figure of the year record h
MetricAt(result, metric, h) ==
  CASE metric = "irr10" -> result.summary.irr10Year
    [] metric = "irr20" -> result.summary.irr20Year
    [] metric = "irr40" -> result.summary.irr40Year
    [] metric = "cashflow" -> result.yearlyData[h].cumulativeCashFlow
    [] metric = "networth" -> result.yearlyData[h].netWorth

\* C11: for every projection result and every horizon h it has a record for,
\* the extraction returns the 10-, 20- and 40-year IRR of the summary whatever
\* h is, the cumulative cash flow of the year record h for cashflow and its
\* net worth for networth; the tornado and the heatmap extract alike
C11_MetricExtraction ==
  \A i \in DOMAIN calls :
    LET result == ResultOf(calls[i])
    IN  \A h \in Horizons : h <= Len(result.yearlyData) =>
          \A metric \in Metrics :
            /\ getMetricValue(result.summary, metric, h) = MetricAt(result, metric, h)
            /\ getMetricValueHeatmap(result.summary, metric, h) = MetricAt(result, metric, h)

\* a result of 40 records whose cash flow and net worth differ between the
\* horizons
C11_HorizonsDiffer ==
  \E i \in DOMAIN calls :
    LET result == ResultOf(calls[i])
    IN  /\ Len(result.yearlyData) = 40
        /\ getMetricValue(result.summary, "cashflow", 10) # getMetricValue(result.summary, "cashflow", 40)
        /\ getMetricValueHeatmap(result.summary, "networth", 20)
             # getMetricValueHeatmap(result.summary, "networth", 40)
        /\ getMetricValue(result.summary, "irr10", 40) # getMetricValue(result.summary, "irr40", 40)

----------------------------------------------------------------------------
(* Properties of the loan, checked under SpecEngine *)

\* C12: for a positive loan with positive interest and repayment rates the
\* outstanding balance of the year records never rises and is never negative,
\* it is 0 from the year index 30 on (360 months elapsed), and where it is 0
\* the annual payment, the interest and the principal are 0
C12_Amortization ==
  \A i \in DOMAIN calls :
    LET input == calls[i].inputs
        yearlyData == ResultOf(calls[i]).yearlyData
    IN  (loanAmount(input) > 0 /\ input.interestRate > 0 /\ input.repaymentRate > 0) =>
          \A k \in DOMAIN yearlyData :
            /\ yearlyData[k].outstandingLoan >= 0
            /\ k < Len(yearlyData) => yearlyData[k].outstandingLoan >= yearlyData[k + 1].outstandingLoan
            /\ (k - 1) * 12 >= totalMonths => yearlyData[k].outstandingLoan = 0
            /\ yearlyData[k].outstandingLoan = 0 =>
                 /\ yearlyData[k].annualLoanPayment = 0
                 /\ yearlyData[k].interestPaid = 0
                 /\ yearlyData[k].principalRepaid = 0

\* a loan dearer than the default one, followed over 40 years: still owed in
\* the year index 29, paid off from the year index 30 on
C12_LoanPaidOff ==
  \E i \in DOMAIN calls :
    LET yearlyData == ResultOf(calls[i]).yearlyData
    IN  /\ calls[i].inputs.interestRate = 600
        /\ loanAmount(calls[i].inputs) > 0
        /\ Len(yearlyData) = 40
        /\ yearlyData[30].outstandingLoan > 0
        /\ yearlyData[30].outstandingLoan < yearlyData[2].outstandingLoan
        /\ yearlyData[31].outstandingLoan = 0
        /\ yearlyData[31].annualLoanPayment = 0

----------------------------------------------------------------------------
(* Properties of the stored overrides, checked under SpecScenarios *)

\* C13: every override value stored in a scenario lies within the minimum and
\* the maximum of its sensitivity variable
C13_OverridesInRange ==
  \A s \in DOMAIN scenarios :
    \A key \in DOMAIN scenarios[s].variables :
      LET variable == FindVariable(inputs, key)
      IN  /\ variable.min <= scenarios[s].variables[key]
          /\ scenarios[s].variables[key] <= variable.max

\* a custom scenario saved with an interest rate typed above the maximum
C13_TypedAboveMaximum ==
  /\ Len(scenarios) = 2
  /\ ~showScenarioDialog
  /\ "interestRate" \in DOMAIN scenarios[2].variables
  /\ scenarios[2].variables["interestRate"] = 700
  /\ FindVariable(inputs, "interestRate").max = 600

----------------------------------------------------------------------------
(* Properties of the catalogue, checked under SpecCharts *)

\* C14: every sensitivity variable of the catalogue has min < max, step > 0
\* and a base value, the current input of its key, within min and max
C14_CatalogValid ==
  \A v \in DOMAIN sensitivityVariables(inputs) :
    LET variable == sensitivityVariables(inputs)[v]
    IN  /\ variable.min < variable.max
        /\ variable.step > 0
        /\ variable.currentValue = inputs[variable.key]
        /\ variable.min <= variable.currentValue
        /\ variable.currentValue <= variable.max

\* the vacancy rate was set above the maximum of its variable
C14_VacancyAboveMaximum ==
  /\ inputs.vacancyRate = 1500
  /\ FindVariable(inputs, "vacancyRate").currentValue = 1500
  /\ FindVariable(inputs, "vacancyRate").max = 1000
  /\ baseProjection.inputs.vacancyRate = 1500

----------------------------------------------------------------------------
(* Properties of an equity above the acquisition costs, checked under
   SpecEngine *)

\* the fields of interface ProjectionResults and of its summary
ProjectionResultsFields ==
  {"yearlyData", "summary", "totalInvestment", "irr10Year", "irr20Year", "irr40Year",
   "totalCashFlow10Year", "totalCashFlow20Year", "totalCashFlow40Year",
   "netWorth10Year", "netWorth20Year", "netWorth40Year", "averageAnnualCashFlow",
   "roiAtYear10", "roiAtYear20", "roiAtYear40"}

\* a result carries a flag when it, or its summary, has a field besides those
\* of every result
Flagged(result) ==
  \E f \in (DOMAIN result) \cup (DOMAIN result.summary) : f \notin ProjectionResultsFields

\* the loan figures of every year record are 0
FullyEquityFinanced(yearlyData) ==
  \A k \in DOMAIN yearlyData :
    /\ yearlyData[k].outstandingLoan = 0
    /\ yearlyData[k].annualLoanPayment = 0
    /\ yearlyData[k].interestPaid = 0
    /\ yearlyData[k].principalRepaid = 0

\* C15: when the equity exceeds the acquisition costs the projection is that
\* of a property without a loan (balance, payment, interest and principal 0
\* in every year record) and the result carries a flag of the invalid input
C15_EquityAboveCostsFlagged ==
  \A i \in DOMAIN calls :
    Cents(calls[i].inputs.equity) > acquisitionCosts(calls[i].inputs) =>
      /\ FullyEquityFinanced(ResultOf(calls[i]).yearlyData)
      /\ Flagged(ResultOf(calls[i]))

\* a call with an equity above the acquisition costs: projected without a
\* loan, and returned without a flag
C15_EquityAboveCostsCall ==
  \E i \in DOMAIN calls :
    /\ Cents(calls[i].inputs.equity) > acquisitionCosts(calls[i].inputs)
    /\ loanAmount(calls[i].inputs) < 0
    /\ calls[i].years = 40
    /\ FullyEquityFinanced(ResultOf(calls[i]).yearlyData)
    /\ ~Flagged(ResultOf(calls[i]))

----------------------------------------------------------------------------
(* Properties of the rendering of the charts, checked under SpecCharts *)

\* the colour of the middle of the scale, and the width of half a bar
MidpointColor == <<255, 255, 100>>
MidpointWidth == 50 * Limb

\* C16: no colour component of a heatmap cell and no width of a tornado bar
\* is undefined; when all the values of the heatmap are equal the colour is
\* that of the midpoint, and when no end of a tornado bar differs from the
\* base value the widths are the midpoint width
C16_NormalizationDefined ==
  /\ (showHeatmap /\ sensitivityEnabled) =>
       LET data == HeatmapDataOf(heatmapData)
           colors == HeatmapColors(data)
       IN  \A k \in DOMAIN data :
             /\ \A c \in 1..3 : IsFinite(colors[k][c])
             /\ minValue(data) = maxValue(data) => colors[k] = MidpointColor
  /\ (showTornadoChart /\ sensitivityEnabled) =>
       LET data == TornadoDataOf(tornadoData)
           widths == TornadoWidths(data)
       IN  \A k \in DOMAIN data :
             /\ IsFinite(widths[k].minWidthPercent) /\ IsFinite(widths[k].maxWidthPercent)
             /\ maxAbsDelta(data) = 0 =>
                  /\ widths[k].minWidthPercent = MidpointWidth
                  /\ widths[k].maxWidthPercent = MidpointWidth

\* both charts shown at the horizon 10 with metrics of a longer horizon: all
\* values 0, a red component and the widths not numbers
C16_AllValuesEqual ==
  /\ showHeatmap /\ showTornadoChart /\ sensitivityEnabled
  /\ projectionYears = 10
  /\ heatmapMetric = "irr20"
  /\ tornadoMetric = "irr40"
  /\ LET data == HeatmapDataOf(heatmapData)
     IN  /\ Len(data) = 25
         /\ minValue(data) = 0 /\ maxValue(data) = 0
         /\ ~IsFinite(HeatmapColors(data)[1][1])
  /\ LET data == TornadoDataOf(tornadoData)
     IN  /\ Len(data) = 8
         /\ maxAbsDelta(data) = 0
         /\ ~IsFinite(TornadoWidths(data)[1].minWidthPercent)


----------------------------------------------------------------------------
(* Properties of the axes of the heatmap, checked under SpecCharts *)

\* C17: whenever the heatmap is computed its horizontal and its vertical
\* variable are two different variables of the catalogue
C17_AxesDistinct ==
  showHeatmap =>
    /\ FindVariable(inputs, heatmapVarX) # <<>>
    /\ FindVariable(inputs, heatmapVarY) # <<>>
    /\ heatmapVarX # heatmapVarY

\* the heatmap computed with the interest rate on both axes: 25 cells, whose
\* values follow the row alone
C17_SameVariableOnBothAxes ==
  /\ showHeatmap
  /\ heatmapVarX = "interestRate"
  /\ heatmapVarY = "interestRate"
  /\ heatmapMetric = "networth"
  /\ LET data == HeatmapDataOf(heatmapData)
     IN  /\ Len(data) = 25
         /\ \A k, l \in DOMAIN data : data[k].y = data[l].y => data[k].value = data[l].value
         /\ data[1].value # data[25].value

----------------------------------------------------------------------------
(* Properties of the sweeps of hidden charts, checked under SpecCharts *)

\* C18: the tornado sweep and the heatmap sweep yield data only while their
\* chart is visible, that is while the sensitivity analysis is enabled and
\* the chart is switched on; in every other state there is no data
C18_SweepOnlyWhileVisible ==
  /\ ~(showTornadoChart /\ sensitivityEnabled) => TornadoDataOf(tornadoData) = <<>>
  /\ ~(showHeatmap /\ sensitivityEnabled) => HeatmapDataOf(heatmapData) = <<>>

\* the sensitivity analysis is disabled and both charts are hidden, yet both
\* memos hold a sweep of the current inputs: 8 entries and 25 cells
C18_SweptWhileHidden ==
  /\ ~sensitivityEnabled
  /\ showTornadoChart /\ showHeatmap
  /\ inputs.vacancyRate = 1500
  /\ tornadoData.inputs = inputs /\ heatmapData.inputs = inputs
  /\ Len(TornadoDataOf(tornadoData)) = 8
  /\ Len(HeatmapDataOf(heatmapData)) = 25

----------------------------------------------------------------------------
(* Properties of saving a scenario, checked under SpecScenarios *)

\* the place of the scenario a save creates or updates
SavedIndex == IF editingScenarioIndex = Null THEN Len(scenarios) + 1 ELSE editingScenarioIndex[1] + 1

\* C19: whenever addScenario succeeds, the override map of the scenario it
\* creates or updates is the map of adjustments shown in the dialog
\* (customAdjustments), whatever the type of the scenario
C19_SavedAsShown ==
  [][(addScenario /\ ~AddScenarioRejected) =>
       scenarios'[SavedIndex].variables = customAdjustments]_vars

\* the dialog open on a saved scenario, of type pessimistic, with an interest
\* rate changed after the preset was applied: a save is accepted and stores
\* another map than the one shown
C19_PresetChangedByUser ==
  /\ showScenarioDialog
  /\ editingScenarioIndex = <<1>>
  /\ Len(scenarios) = 2
  /\ newScenarioType = "pessimistic"
  /\ "interestRate" \in DOMAIN customAdjustments
  /\ customAdjustments["interestRate"] = 700
  /\ ~AddScenarioRejected
  /\ AddedAdjustments # customAdjustments

----------------------------------------------------------------------------
(* Properties of the direction of saved presets, checked under
   SpecProjections *)

\* no override of the map is worse than the base value (type optimistic),
\* respectively better than the base value (type pessimistic)
DirectionKept(map, base, type) ==
  \A key \in DOMAIN map :
    /\ key \in {"interestRate", "operatingCostsIncreaseRate", "vacancyRate"} =>
         IF type = "optimistic" THEN map[key] <= base[key] ELSE map[key] >= base[key]
    /\ key \in {"rentIncreaseRate", "propertyValueIncreaseRate", "repaymentRate", "depreciationRate"} =>
         IF type = "optimistic" THEN map[key] >= base[key] ELSE map[key] <= base[key]

\* C20: a scenario saved with the type optimistic has no override worse than
\* the base value at the time of saving, and one saved with the type
\* pessimistic has none better than it
C20_SavedPresetKeepsDirection ==
  [][(addScenario /\ ~AddScenarioRejected /\ newScenarioType \in {"optimistic", "pessimistic"}) =>
       DirectionKept(scenarios'[SavedIndex].variables, inputs, newScenarioType)]_vars

\* the dialog open for a pessimistic scenario over a base vacancy rate above
\* the 5 % of the preset: a save is accepted and stores a vacancy rate better
\* than the base value
C20_PessimisticBelowBase ==
  /\ showScenarioDialog
  /\ newScenarioType = "pessimistic"
  /\ inputs.vacancyRate = 1500
  /\ ~AddScenarioRejected
  /\ AddedAdjustments["vacancyRate"] = 500
  /\ ~DirectionKept(AddedAdjustments, inputs, newScenarioType)

----------------------------------------------------------------------------
(* C21: the colours of the scenarios *)

\* C21: after any sequence of additions, updates and removals that leaves at
\* most eight scenarios in the list, the scenarios of the list have pairwise
\* different colours.
C21_ColoursDistinct ==
  Len(scenarios) <= Len(ScenarioColors) =>
    \A i, j \in 1..Len(scenarios) : i # j => scenarios[i].color # scenarios[j].color

\* a scenario was removed from the middle of the list and another one added
C21_AddedAfterRemoval ==
  /\ Len(scenarios) = 3
  /\ scenarios[2].color = getScenarioColor(2)
  /\ scenarios[3].color = getScenarioColor(2)

----------------------------------------------------------------------------
(* C22: the pessimistic preset *)

\* the pessimistic preset of the documentation (generatePessimisticScenario)
PessimisticAsDocumented(input) ==
  [interestRate |-> Min(input.interestRate + 50, 600),
   rentIncreaseRate |-> Max(input.rentIncreaseRate - 100, 100),
   propertyValueIncreaseRate |-> Max(input.propertyValueIncreaseRate - 100, 0),
   vacancyRate |-> Min(input.vacancyRate + 300, 1000),
   operatingCostsIncreaseRate |-> Min(input.operatingCostsIncreaseRate + 50, 400)]

\* C22: for every base input set the pessimistic preset is interest rate
\* min(base + 0.5, 6), rent increase max(base - 1, 1), property value increase
\* max(base - 1, 0), vacancy rate min(base + 3, 10) and operating costs
\* increase min(base + 0.5, 4), and no other field is overridden
C22_PessimisticPreset ==
  [][openScenarioDialog("pessimistic") =>
       customAdjustments' = PessimisticAsDocumented(inputs)]_vars

\* the dialog was opened with the pessimistic preset of the code, which is
\* not the documented one
C22_PessimisticPresetShown ==
  /\ showScenarioDialog
  /\ newScenarioType = "pessimistic"
  /\ customAdjustments = getPresetAdjustments(inputs, "pessimistic")
  /\ customAdjustments # PessimisticAsDocumented(inputs)

----------------------------------------------------------------------------
(* C23: the income tax at the zone boundaries *)

\* a whole-euro amount of tax (ten-thousandths of a euro rounded down)
WholeEuros(tax) == tax \div Limb

\* C23 as stated: for a single taxpayer the income tax is exactly 0 at an
\* income of 11,604, and at 17,005 and at 66,760 the formula of the zone
\* below and the formula of the zone above give the same income tax
C23_NoJumpAtBoundaries ==
  \A i \in 1..Len(taxes) :
    taxes[i].maritalStatus = "single" =>
      /\ taxes[i].taxableIncome = Cents(11604) => TaxOf(taxes[i]).incomeTax = 0
      /\ taxes[i].taxableIncome = Cents(17005) =>
           FirstZone(taxes[i].taxableIncome) = SecondZone(taxes[i].taxableIncome)
      /\ taxes[i].taxableIncome = Cents(66760) =>
           SecondZone(taxes[i].taxableIncome) = ThirdZone(taxes[i].taxableIncome)

\* C23: for a single taxpayer the income tax is exactly 0 at an income of
\* 11,604; at 17,005 and at 66,760 the formula of the zone below and the
\* formula of the zone above agree in whole euros, the one below giving more
\* by less than a tenth of a cent at 17,005 and by less than 6 cents at 66,760
C23_BoundariesAgreeInEuros ==
  \A i \in 1..Len(taxes) :
    taxes[i].maritalStatus = "single" =>
      /\ taxes[i].taxableIncome = Cents(11604) => TaxOf(taxes[i]).incomeTax = 0
      /\ taxes[i].taxableIncome = Cents(17005) =>
           /\ WholeEuros(FirstZone(taxes[i].taxableIncome)) = WholeEuros(SecondZone(taxes[i].taxableIncome))
           /\ TaxOf(taxes[i]).incomeTax = FirstZone(taxes[i].taxableIncome)
           /\ FirstZone(taxes[i].taxableIncome) - SecondZone(taxes[i].taxableIncome) \in 1..9
      /\ taxes[i].taxableIncome = Cents(66760) =>
           /\ WholeEuros(SecondZone(taxes[i].taxableIncome)) = WholeEuros(ThirdZone(taxes[i].taxableIncome))
           /\ TaxOf(taxes[i]).incomeTax = SecondZone(taxes[i].taxableIncome)
           /\ SecondZone(taxes[i].taxableIncome) - ThirdZone(taxes[i].taxableIncome) \in 1..599

\* the tax of a single taxpayer was computed at both upper zone boundaries
C23_BothBoundariesTaxed ==
  /\ Len(taxes) = 2
  /\ taxes[1].maritalStatus = "single" /\ taxes[1].taxableIncome = Cents(17005)
  /\ taxes[2].maritalStatus = "single" /\ taxes[2].taxableIncome = Cents(66760)
  /\ TaxOf(taxes[1]).incomeTax > 0

----------------------------------------------------------------------------
(* C24: the running totals of the year records *)

\* the sum of netCashFlow over the records 1..k
RECURSIVE SumOfNetCashFlow(_, _)
SumOfNetCashFlow(yearlyData, k) ==
  IF k = 0 THEN 0 ELSE SumOfNetCashFlow(yearlyData, k - 1) + yearlyData[k].netCashFlow

\* C24: in every yearly record k of a projection cumulativeCashFlow is the sum
\* of netCashFlow of the records 1..k, netCashFlow = grossCashFlow + taxSavings,
\* equity = propertyValue - outstandingLoan, netWorth = equity +
\* cumulativeCashFlow, and record k carries year = k (increasing year order)
C24_YearRecordIdentities ==
  \A i \in 1..Len(calls) :
    LET yearlyData == ResultOf(calls[i]).yearlyData
    IN  \A k \in 1..Len(yearlyData) :
          /\ yearlyData[k].cumulativeCashFlow = SumOfNetCashFlow(yearlyData, k)
          /\ yearlyData[k].netCashFlow = yearlyData[k].grossCashFlow + yearlyData[k].taxSavings
          /\ yearlyData[k].equity = yearlyData[k].propertyValue - yearlyData[k].outstandingLoan
          /\ yearlyData[k].netWorth = yearlyData[k].equity + yearlyData[k].cumulativeCashFlow
          /\ yearlyData[k].year = k

\* a projection was computed whose later records carry totals of several
\* years, with a loan outstanding and a tax effect
C24_TotalsCarried ==
  \E i \in 1..Len(calls) :
    LET yearlyData == ResultOf(calls[i]).yearlyData
    IN  /\ Len(yearlyData) >= 10
        /\ yearlyData[10].cumulativeCashFlow # yearlyData[10].netCashFlow
        /\ yearlyData[10].outstandingLoan > 0
        /\ yearlyData[10].taxSavings # 0

----------------------------------------------------------------------------
(* C25: the tax effect of a year *)

\* -taxableRentalIncome x marginalTaxRate / 100, x 1.08 under church tax
TaxEffect(input, taxableRentalIncome) ==
  FMul(FMul(-taxableRentalIncome, Pct(input.marginalTaxRate)),
       IF input.churchTaxLiability THEN One + 8 * (One \div 100) ELSE One)

----------------------------------------------------------------------------
(* C26: the order of tornado entries of the same range *)

\* the position of the variable of the given name in the catalogue
CatalogPosition(name) ==
  CHOOSE k \in 1..Len(sensitivityVariables(inputs)) : sensitivityVariables(inputs)[k].name = name

\* C26: tornado entries whose sort keys (range) are equal appear in the same
\* relative order as their variables appear in the catalogue
C26_TiesInCatalogOrder ==
  LET data == TornadoDataOf(tornadoData)
  IN  \A i, j \in 1..Len(data) :
        (i < j /\ IsFinite(data[i].range) /\ data[i].range = data[j].range) =>
          CatalogPosition(data[i].variable) < CatalogPosition(data[j].variable)

\* the tornado data shown holds two entries of the same range
C26_TwoEntriesOfSameRange ==
  /\ showTornadoChart
  /\ LET data == TornadoDataOf(tornadoData)
     IN  \E i, j \in 1..Len(data) :
           i < j /\ IsFinite(data[i].range) /\ data[i].range = data[j].range

----------------------------------------------------------------------------
(* C27: a save that is rejected *)

\* the pending name is empty or consists of blanks only
BlankName == newScenarioName \in {"", " "}

\* C27: addScenario invoked with a blank scenario name, or with the type
\* custom and an empty adjustment map, leaves the scenario list, the dialog's
\* open state, the pending name, type and adjustments and the editing index
\* unchanged
C27_RejectedSaveChangesNothing ==
  [][(addScenario /\ (BlankName \/ (newScenarioType = "custom" /\ customAdjustments = EmptyMap)))
       => UNCHANGED dialogVars]_vars

\* a dialog holding the adjustments of a preset and a name of blanks only:
\* a save is rejected for the name alone
C27_BlankNameOverPreset ==
  /\ showScenarioDialog
  /\ newScenarioName = " "
  /\ newScenarioType = "optimistic"
  /\ customAdjustments # EmptyMap
  /\ AddScenarioRejected
  /\ ENABLED addScenario

----------------------------------------------------------------------------
(* C28: closing the dialog *)

\* C28: closing the scenario dialog with Cancel or X leaves the scenario list
\* unchanged and discards all pending dialog state: name, adjustments, editing
\* index and scenario type are as before any dialog was opened
C28_CancelDiscardsAll ==
  [][cancelScenarioDialog =>
       /\ UNCHANGED scenarios
       /\ ~showScenarioDialog'
       /\ newScenarioName' = ""
       /\ customAdjustments' = EmptyMap
       /\ editingScenarioIndex' = Null
       /\ newScenarioType' = "custom"]_vars

\* a dialog just opened by editScenario on a custom scenario shows the type
\* pessimistic, left behind by a dialog that was cancelled
C28_TypeLeftBehind ==
  /\ showScenarioDialog
  /\ editingScenarioIndex = <<1>>
  /\ newScenarioName = scenarios[2].name
  /\ customAdjustments = scenarios[2].variables
  /\ newScenarioType = "pessimistic"
  /\ customAdjustments # getPresetAdjustments(inputs, "pessimistic")

----------------------------------------------------------------------------
(* C29: updating a scenario *)

\* C29: updating an existing scenario through the edit dialog keeps the
\* scenario's position in the list and its colour and leaves every other
\* scenario unchanged; only the name and the override map of the edited
\* scenario change
C29_UpdateKeepsColour ==
  [][(addScenario /\ ~AddScenarioRejected /\ editingScenarioIndex # Null) =>
       /\ Len(scenarios') = Len(scenarios)
       /\ \A k \in 1..Len(scenarios) :
            IF k = editingScenarioIndex[1] + 1
            THEN scenarios'[k].color = scenarios[k].color
            ELSE scenarios'[k] = scenarios[k]]_vars

\* the edit dialog of a scenario is open and a save is accepted, while the
\* palette entry at the length of the list is not the scenario's colour
C29_UpdateRecolours ==
  /\ showScenarioDialog
  /\ editingScenarioIndex # Null
  /\ ~AddScenarioRejected
  /\ getScenarioColor(Len(scenarios)) # scenarios[editingScenarioIndex[1] + 1].color

----------------------------------------------------------------------------
(* C30: the projection and the income of the investor *)

\* two input sets that differ in annualIncome and maritalStatus at most
SameButIncome(a, b) ==
  \A key \in DOMAIN a : key \notin {"annualIncome", "maritalStatus"} => a[key] = b[key]

====
